---- MODULE Spec2Model ----
(***************************************************************************)
(* Activity ingest of strava-coverage: the explicit bulk import            *)
(* (internal/coverage/import_initial.go), the import on login              *)
(* (internal/auth/auto_processor.go) and the webhook import                *)
(* (internal/coverage/automation.go), over the tables activities,          *)
(* import_status and strava_tokens.                                        *)
(***************************************************************************)
EXTENDS Integers, Sequences, FiniteSets, TLC

(***************************************************************************)
(* Bounds of the model.  PerPage stands for perPage (100 in the bulk       *)
(* import) and PageLimit for the page limit 1000 of the bulk import, both  *)
(* scaled down; LoginPerPage stands for perPage (25) of the login import   *)
(* and MaxLoginPage bounds the page counter of the login import, which     *)
(* the code leaves unbounded.                                              *)
(***************************************************************************)
PerPage == 2
PageLimit == 2
LoginPerPage == 2
MaxLoginPage == PageLimit + 1

Users == {1}
Tasks == {1, 2}

(***************************************************************************)
(* Provider summaries (StravaActivitySummary): the fields the ingest       *)
(* reads.  start_latlng and summary_polyline are modelled by their         *)
(* emptiness.                                                              *)
(***************************************************************************)
Summaries ==
    { [ID |-> 1, StartLatlng |-> TRUE,  SummaryPolyline |-> TRUE,
       Type |-> "Run",     SportType |-> "Run"],
      [ID |-> 2, StartLatlng |-> TRUE,  SummaryPolyline |-> FALSE,
       Type |-> "Ride",    SportType |-> "Ride"] }

ActivityIDs == {s.ID : s \in Summaries}

(* the HTTP status codes a provider request can end with *)
StatusCodes == {200, 429, 500}

SeqsUpTo(S, n) == UNION {[1..k -> S] : k \in 0..n}

VARIABLES
    activities,      \* table activities: bag of rows, row -> number of copies
    import_status,   \* table import_status: user_id -> row
    strava_tokens,   \* table strava_tokens: the users that have a token row
    goroutines,      \* the performInitialImport goroutines
    rateLimitedAt,   \* history: the page whose list request got the 429 that ended
                     \* the user's last finished bulk import (0: it ended otherwise)
    login,           \* the ProcessUserOnLogin goroutine
    now,             \* the time of the last RecalculateAllCoverageHandler call, in ticks
    jobs,            \* CoverageService.jobs: job id -> the struct registered under it
    statuses,        \* the RecalculationStatus structs, by the call that allocated them
    recalculations,  \* the performRecalculation goroutines, by call
    returned,        \* history: the job ids the handler has answered with
    reader,          \* a GetRecalculationStatusHandler request
    activity_rows,   \* table activities: the columns the comment paths use, by
                     \* strava activity id
    comment_settings,\* table comment_settings: the user's row
    commenters,      \* the comment-posting paths, by path
    cities,          \* table cities: the rows by id (SERIAL)
    activity_paths,  \* table activities: the columns the region resolver and
                     \* the coverage calculations use, by strava activity id
    custom_areas,    \* table custom_areas: the rows by id
    calc,            \* the response of the last CalculateCoverageHandler call
    resolvers,       \* the passes of the region resolver, by pass
    area_response,   \* the last createCustomArea or updateCustomArea call: the
                     \* request, the polygon text and the response
    pagination       \* the last GetPaginationParams call: the query and the
                     \* PaginationParams returned

ingestVars == <<activities, import_status, strava_tokens, goroutines,
                rateLimitedAt, login>>

recalcVars == <<now, jobs, statuses, recalculations, returned, reader>>

commentVars == <<activity_rows, comment_settings, commenters>>

areaVars == <<area_response>>

spatialVars == <<cities, activity_paths, custom_areas, calc, resolvers, areaVars>>

pageVars == <<pagination>>

vars == <<ingestVars, recalcVars, commentVars, spatialVars, pageVars>>

(* the variables the ingest leaves alone *)
outsideIngest == <<recalcVars, commentVars, spatialVars, pageVars>>

(* the variables the recalculation jobs leave alone *)
outsideRecalc == <<ingestVars, commentVars, spatialVars, pageVars>>

(* the variables the comment paths leave alone *)
outsideComments == <<ingestVars, recalcVars, spatialVars, pageVars>>

(* the variables the coverage calculations and the resolver leave alone *)
outsideSpatial == <<ingestVars, recalcVars, commentVars, areaVars, pageVars>>

(* the variables the custom-area handlers leave alone *)
outsideAreas == <<ingestVars, recalcVars, commentVars,
                  cities, activity_paths, calc, resolvers, pageVars>>

(* the variables GetPaginationParams leaves alone *)
outsidePages == <<ingestVars, recalcVars, commentVars, spatialVars>>

----------------------------------------------------------------------------
(* Table activities *)

ActivityRows == [strava_activity_id : ActivityIDs, user_id : Users]

(* SELECT COUNT( * ) FROM activities WHERE strava_activity_id = $1 *)
CountByStravaID(tbl, id) ==
    LET rows == {r \in ActivityRows : r.strava_activity_id = id}
        sum[S \in SUBSET rows] ==
            IF S = {} THEN 0
            ELSE LET r == CHOOSE x \in S : TRUE IN tbl[r] + sum[S \ {r}]
    IN sum[rows]

(* mutant: the column without its UNIQUE constraint *)
UniqueViolation_NoConstraint(tbl, id) == FALSE

(* strava_activity_id BIGINT UNIQUE NOT NULL: an INSERT of a stored id fails *)
UniqueViolation(tbl, id) == CountByStravaID(tbl, id) > 0

(* INSERT INTO activities ... : the table afterwards and whether it failed *)
InsertActivity(tbl, userID, id) ==
    LET row == [strava_activity_id |-> id, user_id |-> userID]
    IN IF UniqueViolation(tbl, id)
       THEN [err |-> TRUE, tbl |-> tbl]
       ELSE [err |-> FALSE, tbl |-> [tbl EXCEPT ![row] = @ + 1]]

(* INSERT ... ON CONFLICT (strava_activity_id) DO NOTHING *)
InsertActivityOnConflictDoNothing(tbl, userID, id) ==
    InsertActivity(tbl, userID, id).tbl

----------------------------------------------------------------------------
(* Table import_status *)

NULL == "NULL"

NoRow == [present |-> FALSE, in_progress |-> FALSE, current_page |-> 1,
          imported_count |-> 0, failed_count |-> 0, error_message |-> NULL]

(* getImportStatus: err (no row) or the row *)
getImportStatus(tbl, userID) ==
    [err |-> ~tbl[userID].present, status |-> tbl[userID]]

(* setImportInProgress(userID, true): the upsert *)
setImportInProgressTrue(tbl, userID) ==
    [tbl EXCEPT ![userID] =
        [@ EXCEPT !.present = TRUE, !.in_progress = TRUE,
                  !.current_page = 1, !.error_message = NULL]]

(* mutant: the deferred call does not clear the flag *)
setImportInProgressFalse_Kept(tbl, userID) == tbl

(* setImportInProgress(userID, false): UPDATE ... WHERE user_id = $1 *)
setImportInProgressFalse(tbl, userID) ==
    IF tbl[userID].present
    THEN [tbl EXCEPT ![userID].in_progress = FALSE]
    ELSE tbl

(* updateImportStatus *)
updateImportStatus(tbl, userID, currentPage, imported, failed) ==
    IF tbl[userID].present
    THEN [tbl EXCEPT ![userID] =
            [@ EXCEPT !.current_page = currentPage,
                      !.imported_count = imported, !.failed_count = failed]]
    ELSE tbl

(* finalizeImportStatus *)
finalizeImportStatus(tbl, userID, imported, failed) ==
    IF tbl[userID].present
    THEN [tbl EXCEPT ![userID] =
            [@ EXCEPT !.imported_count = imported, !.failed_count = failed,
                      !.in_progress = FALSE]]
    ELSE tbl

----------------------------------------------------------------------------
(* The bulk import: InitialImportHandler and performInitialImport *)

validTypes == {"Run", "Ride", "Walk", "Hike", "TrailRun", "VirtualRun", "VirtualRide"}

shouldImportActivity(activity) ==
    IF ~activity.StartLatlng \/ ~activity.SummaryPolyline
    THEN FALSE
    ELSE \E validType \in validTypes :
            activity.Type = validType \/ activity.SportType = validType

(* a goroutine that was never started.  status is the HTTP status of the    *)
(* last list request; fetched, seen and resumePage are history: the number  *)
(* of list requests made, the number of summaries that passed               *)
(* shouldImportActivity, and rateLimitedAt of the user when the goroutine   *)
(* was started.                                                             *)
NoGoroutine ==
    [pc |-> "idle", userID |-> 0, page |-> 0, activities |-> <<>>,
     hasMore |-> FALSE, totalImported |-> 0, totalFailed |-> 0,
     status |-> 0, fetched |-> 0, seen |-> 0, resumePage |-> 0]

(* `go s.performInitialImport(userID)' takes the first goroutine not yet started *)
FreeTask ==
    CHOOSE t \in Tasks : /\ goroutines[t].pc = "idle"
                         /\ \A o \in Tasks : goroutines[o].pc = "idle" => t <= o

(* InitialImportHandler, an import in progress: 409 Conflict *)
InitialImportConflict(userID) ==
    LET r == getImportStatus(import_status, userID)
    IN /\ ~r.err /\ r.status.in_progress
       /\ UNCHANGED vars

(* InitialImportHandler, otherwise: starts the goroutine and answers 202 *)
InitialImportAccepted(userID) ==
    LET r == getImportStatus(import_status, userID)
    IN /\ ~(~r.err /\ r.status.in_progress)
       /\ \E t \in Tasks : goroutines[t].pc = "idle"
       /\ goroutines' = [goroutines EXCEPT ![FreeTask] =
             [NoGoroutine EXCEPT !.pc = "start", !.userID = userID,
                                 !.resumePage = rateLimitedAt[userID]]]
       /\ UNCHANGED <<activities, import_status, strava_tokens, rateLimitedAt, login, outsideIngest>>

InitialImportHandler(userID) ==
    \/ InitialImportConflict(userID)
    \/ InitialImportAccepted(userID)

(* performInitialImport: s.setImportInProgress(userID, true) *)
MarkInProgress(t) ==
    LET g == goroutines[t]
    IN /\ g.pc = "start"
       /\ import_status' = setImportInProgressTrue(import_status, g.userID)
       /\ goroutines' = [goroutines EXCEPT ![t].pc = "token"]
       /\ UNCHANGED <<activities, strava_tokens, rateLimitedAt, login, outsideIngest>>

(* performInitialImport: s.DB.GetStravaToken(userID); on error return *)
GetStravaToken(t) ==
    LET g == goroutines[t]
    IN /\ g.pc = "token"
       /\ goroutines' = [goroutines EXCEPT ![t] =
             IF g.userID \in strava_tokens
             THEN [g EXCEPT !.pc = "fetch", !.page = 1]
             ELSE [g EXCEPT !.pc = "defer"]]
       /\ UNCHANGED <<activities, import_status, strava_tokens, rateLimitedAt, login, outsideIngest>>

(* fetchActivitiesPage: (activities, hasMore, err) for a provider answer *)
fetchActivitiesPage(code, batch) ==
    IF code # 200
    THEN [activities |-> <<>>, hasMore |-> FALSE, err |-> TRUE]
    ELSE [activities |-> batch, hasMore |-> (Len(batch) = PerPage), err |-> FALSE]

(* the number of summaries of a batch that pass shouldImportActivity *)
RECURSIVE CountShouldImport(_)
CountShouldImport(batch) ==
    IF batch = <<>> THEN 0
    ELSE (IF shouldImportActivity(Head(batch)) THEN 1 ELSE 0)
         + CountShouldImport(Tail(batch))

(* the loop over the page passes over the summaries that shouldImportActivity *)
(* rejects: what is left of the page from the next summary to import on       *)
RECURSIVE SkipRejected(_)
SkipRejected(batch) ==
    IF batch = <<>> \/ shouldImportActivity(Head(batch)) THEN batch
    ELSE SkipRejected(Tail(batch))

(* performInitialImport: one list request; an error or an empty page breaks *)
FetchPage(t) ==
    LET g == goroutines[t]
    IN /\ g.pc = "fetch"
       /\ \E code \in StatusCodes, batch \in SeqsUpTo(Summaries, PerPage) :
            /\ code # 200 => batch = <<>>
            /\ LET r == fetchActivitiesPage(code, batch)
               IN goroutines' = [goroutines EXCEPT ![t] =
                    [g EXCEPT !.status = code,
                              !.fetched = @ + 1,
                              !.activities = SkipRejected(r.activities),
                              !.hasMore = r.hasMore,
                              !.seen = @ + CountShouldImport(r.activities),
                              !.pc = IF r.err \/ Len(r.activities) = 0
                                     THEN "finalize" ELSE "items"]]
       /\ UNCHANGED <<activities, import_status, strava_tokens, rateLimitedAt, login, outsideIngest>>

(* mutant: an import error ends the run instead of being counted *)
afterImport_Abort(g, err) ==
    IF err
    THEN [g EXCEPT !.pc = "finalize", !.activities = <<>>]
    ELSE [g EXCEPT !.pc = "items", !.activities = SkipRejected(Tail(@)),
                   !.totalImported = @ + 1]

(* the loop body after importSingleActivity returned: err counts the        *)
(* activity as failed, nil as imported; the loop goes on with the rest of    *)
(* the page                                                                  *)
afterImport(g, err) ==
    [g EXCEPT !.pc = "items",
              !.activities = SkipRejected(Tail(@)),
              !.totalFailed = IF err THEN @ + 1 ELSE @,
              !.totalImported = IF err THEN @ ELSE @ + 1]

(* importSingleActivity: SELECT COUNT; a stored activity returns nil *)
CheckExisting(t) ==
    LET g == goroutines[t]
        id == Head(g.activities).ID
    IN /\ g.pc = "items" /\ g.activities # <<>>
       /\ goroutines' = [goroutines EXCEPT ![t] =
             IF CountByStravaID(activities, id) > 0
             THEN afterImport(g, FALSE)
             ELSE [g EXCEPT !.pc = "streams"]]
       /\ UNCHANGED <<activities, import_status, strava_tokens, rateLimitedAt, login, outsideIngest>>

(* importSingleActivity: the streams request, parseActivityStreams and the   *)
(* INSERT; streamsOK is false for a failed request, a parse error or no GPS  *)
(* data                                                                      *)
ImportStreams(t) ==
    LET g == goroutines[t]
        id == Head(g.activities).ID
    IN /\ g.pc = "streams"
       /\ \E streamsOK \in BOOLEAN :
            LET ins == InsertActivity(activities, g.userID, id)
            IN /\ activities' = IF streamsOK THEN ins.tbl ELSE activities
               /\ goroutines' = [goroutines EXCEPT ![t] =
                                    afterImport(g, ~streamsOK \/ ins.err)]
       /\ UNCHANGED <<import_status, strava_tokens, rateLimitedAt, login, outsideIngest>>

(* performInitialImport, after the page: updateImportStatus, then the end    *)
(* of the loop body: !hasMore breaks, page++, page > 1000 breaks             *)
UpdateStatus(t) ==
    LET g == goroutines[t]
    IN /\ g.pc = "items" /\ g.activities = <<>>
       /\ import_status' = updateImportStatus(import_status, g.userID, g.page,
                                              g.totalImported, g.totalFailed)
       /\ goroutines' = [goroutines EXCEPT ![t] =
             IF ~g.hasMore THEN [g EXCEPT !.pc = "finalize"]
             ELSE IF g.page + 1 > PageLimit
                  THEN [g EXCEPT !.page = @ + 1, !.pc = "finalize"]
                  ELSE [g EXCEPT !.page = @ + 1, !.pc = "fetch"]]
       /\ UNCHANGED <<activities, strava_tokens, rateLimitedAt, login, outsideIngest>>

(* performInitialImport: s.finalizeImportStatus(userID, totalImported, totalFailed) *)
Finalize(t) ==
    LET g == goroutines[t]
    IN /\ g.pc = "finalize"
       /\ import_status' = finalizeImportStatus(import_status, g.userID,
                                                g.totalImported, g.totalFailed)
       /\ goroutines' = [goroutines EXCEPT ![t].pc = "defer"]
       /\ UNCHANGED <<activities, strava_tokens, rateLimitedAt, login, outsideIngest>>

(* performInitialImport: the deferred s.setImportInProgress(userID, false) *)
Deferred(t) ==
    LET g == goroutines[t]
    IN /\ g.pc = "defer"
       /\ import_status' = setImportInProgressFalse(import_status, g.userID)
       /\ goroutines' = [goroutines EXCEPT ![t].pc = "done"]
       /\ rateLimitedAt' = [rateLimitedAt EXCEPT ![g.userID] =
                               IF g.status = 429 THEN g.page ELSE 0]
       /\ UNCHANGED <<activities, strava_tokens, login, outsideIngest>>

performInitialImport(t) ==
    \/ MarkInProgress(t)
    \/ GetStravaToken(t)
    \/ FetchPage(t)
    \/ CheckExisting(t)
    \/ ImportStreams(t)
    \/ UpdateStatus(t)
    \/ Finalize(t)
    \/ Deferred(t)

----------------------------------------------------------------------------
(* The webhook import: processNewActivity -> importActivityByID.  streamsOK  *)
(* is false when the token is missing or the streams request fails.          *)
importActivityByID(activityID, userID) ==
    /\ \E streamsOK \in BOOLEAN :
         activities' =
            IF userID \in strava_tokens /\ streamsOK
            THEN InsertActivityOnConflictDoNothing(activities, userID, activityID)
            ELSE activities
    /\ UNCHANGED <<import_status, strava_tokens, goroutines, rateLimitedAt, login, outsideIngest>>

----------------------------------------------------------------------------
(* The import on login: ProcessUserOnLogin and importAllActivities *)

(* Provider activities as the login import decodes them (StravaActivity);   *)
(* StartDate is whether start_date parses as RFC 3339.                       *)
LoginActivities ==
    { [ID |-> 1, StartLatLng |-> TRUE,  SummaryPolyline |-> TRUE,
       Type |-> "Run",  SportType |-> "Run",  StartDate |-> TRUE],
      [ID |-> 2, StartLatLng |-> FALSE, SummaryPolyline |-> FALSE,
       Type |-> "Yoga", SportType |-> "Yoga", StartDate |-> TRUE],
      [ID |-> 2, StartLatLng |-> TRUE,  SummaryPolyline |-> FALSE,
       Type |-> "Ride", SportType |-> "Ride", StartDate |-> FALSE] }

maxRetries == 3

(* mutant: a fixed delay of one minute *)
backoffDuration_Fixed(attempt) == 1

(* backoffDuration, in minutes: time.Duration(1<<uint(attempt)) * time.Minute *)
backoffDuration(attempt) == 2 ^ attempt

(* the goroutine before the OAuth callback started it.  full is              *)
(* len(activities) = perPage for the page being processed; requests and      *)
(* waits are history: the list requests made for the current page and the    *)
(* backoffs slept between them, in minutes; mapped and covered are history:  *)
(* mapActivitiesToCities and calculateCoverageForUserCities were called.     *)
NoLogin ==
    [pc |-> "idle", userID |-> 0, page |-> 0, attempt |-> 0,
     activities |-> <<>>, full |-> FALSE, totalImported |-> 0,
     requests |-> 0, waits |-> <<>>,
     hasActivities |-> FALSE, mapped |-> FALSE, covered |-> FALSE]

(* SELECT COUNT( * ) FROM activities WHERE user_id = $1 *)
CountByUser(tbl, userID) ==
    LET rows == {r \in ActivityRows : r.user_id = userID}
        sum[S \in SUBSET rows] ==
            IF S = {} THEN 0
            ELSE LET r == CHOOSE x \in S : TRUE IN tbl[r] + sum[S \ {r}]
    IN sum[rows]

hasExistingActivities(tbl, userID) == CountByUser(tbl, userID) > 0

(* the OAuth callback: UpsertStravaToken, then `go ProcessUserOnLogin' *)
OAuthCallback(userID) ==
    /\ login.pc = "idle"
    /\ strava_tokens' = strava_tokens \cup {userID}
    /\ login' = [NoLogin EXCEPT !.pc = "check", !.userID = userID]
    /\ UNCHANGED <<activities, import_status, goroutines, rateLimitedAt, outsideIngest>>

(* mutant: the import runs whether or not the user has activities *)
CheckExistingActivities_NoSkip ==
    /\ login.pc = "check"
    /\ login' = [login EXCEPT
                    !.hasActivities = hasExistingActivities(activities, login.userID),
                    !.pc = "request", !.page = 1]
    /\ UNCHANGED <<activities, import_status, strava_tokens, goroutines,
                   rateLimitedAt, outsideIngest>>

(* ProcessUserOnLogin, step 1: a user with stored activities skips the       *)
(* import and goes on to the mapping                                         *)
CheckExistingActivities ==
    /\ login.pc = "check"
    /\ login' = IF hasExistingActivities(activities, login.userID)
                THEN [login EXCEPT !.hasActivities = TRUE, !.pc = "map"]
                ELSE [login EXCEPT !.pc = "request", !.page = 1]
    /\ UNCHANGED <<activities, import_status, strava_tokens, goroutines,
                   rateLimitedAt, outsideIngest>>

(* ProcessUserOnLogin: ap.mapActivitiesToCities(userID).  After a skipped    *)
(* import its error is only logged, after an import it is returned.          *)
MapActivities ==
    /\ login.pc = "map"
    /\ \E err \in BOOLEAN :
         login' = [login EXCEPT !.mapped = TRUE,
                                !.pc = IF err /\ ~login.hasActivities
                                       THEN "failed" ELSE "coverage"]
    /\ UNCHANGED <<activities, import_status, strava_tokens, goroutines,
                   rateLimitedAt, outsideIngest>>

(* ProcessUserOnLogin: ap.calculateCoverageForUserCities(userID), likewise   *)
CalculateCoverage ==
    /\ login.pc = "coverage"
    /\ \E err \in BOOLEAN :
         login' = [login EXCEPT !.covered = TRUE,
                                !.pc = IF err /\ ~login.hasActivities
                                       THEN "failed" ELSE "done"]
    /\ UNCHANGED <<activities, import_status, strava_tokens, goroutines,
                   rateLimitedAt, outsideIngest>>

ProcessUserOnLogin ==
    \/ CheckExistingActivities
    \/ MapActivities
    \/ CalculateCoverage

(* importAllActivities: one pass of the retry loop.  code 0 is a failed      *)
(* HTTP request; parsed is false when the body of a 200 does not decode.     *)
(* pc "map": importAllActivities returned nil, the mapping is next.          *)
retryStep(l, code, parsed, batch) ==
    IF ~(l.attempt < maxRetries)
    THEN [l EXCEPT !.pc = "map"]
    ELSE LET r == [l EXCEPT !.requests = @ + 1]
         IN IF code = 0 THEN [r EXCEPT !.pc = "failed"]
            ELSE IF code = 429
                 THEN IF l.attempt = maxRetries - 1
                      THEN [r EXCEPT !.pc = "ratelimit"]
                      ELSE [r EXCEPT !.pc = "backoff"]
            ELSE IF code # 200 THEN [r EXCEPT !.pc = "failed"]
            ELSE IF ~parsed THEN [r EXCEPT !.pc = "failed"]
            ELSE IF Len(batch) = 0 THEN [r EXCEPT !.pc = "map"]
            ELSE [r EXCEPT !.pc = "items", !.activities = batch,
                           !.full = ~(Len(batch) < LoginPerPage)]

ListRequest ==
    /\ login.pc = "request"
    /\ \E code \in StatusCodes \cup {0}, parsed \in BOOLEAN,
          batch \in SeqsUpTo(LoginActivities, LoginPerPage) :
         /\ code # 200 => (parsed /\ batch = <<>>)
         /\ ~parsed => batch = <<>>
         /\ login' = retryStep(login, code, parsed, batch)
    /\ UNCHANGED <<activities, import_status, strava_tokens, goroutines,
                   rateLimitedAt, outsideIngest>>

(* importAllActivities: time.Sleep(backoffDuration); continue *)
Backoff ==
    /\ login.pc = "backoff"
    /\ login' = [login EXCEPT !.pc = "request",
                              !.waits = Append(@, backoffDuration(login.attempt)),
                              !.attempt = @ + 1]
    /\ UNCHANGED <<activities, import_status, strava_tokens, goroutines,
                   rateLimitedAt, outsideIngest>>

(* importActivitySummary: the SELECT; a stored activity returns nil, a       *)
(* start_date that does not parse returns the error                          *)
SummaryCheck ==
    LET a == Head(login.activities)
    IN /\ login.pc = "items" /\ login.activities # <<>>
       /\ login' =
            IF CountByStravaID(activities, a.ID) > 0
            THEN [login EXCEPT !.activities = Tail(@), !.totalImported = @ + 1]
            ELSE IF ~a.StartDate
            THEN [login EXCEPT !.activities = Tail(@)]
            ELSE [login EXCEPT !.pc = "insert"]
       /\ UNCHANGED <<activities, import_status, strava_tokens, goroutines,
                      rateLimitedAt, outsideIngest>>

(* importActivitySummary: INSERT ... ON CONFLICT (strava_activity_id) DO NOTHING *)
SummaryInsert ==
    LET a == Head(login.activities)
    IN /\ login.pc = "insert"
       /\ activities' = InsertActivityOnConflictDoNothing(activities, login.userID, a.ID)
       /\ login' = [login EXCEPT !.pc = "items", !.activities = Tail(@),
                                 !.totalImported = @ + 1]
       /\ UNCHANGED <<import_status, strava_tokens, goroutines, rateLimitedAt, outsideIngest>>

(* importAllActivities, after the page: fewer than perPage breaks, else      *)
(* page++ and the retry loop starts again                                    *)
NextPage ==
    /\ login.pc = "items" /\ login.activities = <<>>
    /\ login.full => login.page + 1 <= MaxLoginPage
    /\ login' = IF ~login.full
                THEN [login EXCEPT !.pc = "map"]
                ELSE [login EXCEPT !.pc = "request", !.page = @ + 1,
                                   !.attempt = 0, !.requests = 0, !.waits = <<>>]
    /\ UNCHANGED <<activities, import_status, strava_tokens, goroutines,
                   rateLimitedAt, outsideIngest>>

importAllActivities ==
    \/ ListRequest
    \/ Backoff
    \/ SummaryCheck
    \/ SummaryInsert
    \/ NextPage

----------------------------------------------------------------------------
(* The recalculation jobs of the coverage service:                           *)
(* RecalculateAllCoverageHandler, performRecalculation, updateJobStatus and  *)
(* GetRecalculationStatusHandler, over the registry CoverageService.jobs.    *)

(* Bounds.  The calls are made at the ticks 0..MaxNow; a job reads at most   *)
(* MaxTotal attributed activities; ProgressEvery stands for the 5 of         *)
(* `(i+1)%5 == 0', scaled down.                                              *)
MaxNow == 3
MaxTotal == 3
ProgressEvery == 2

(* the ticks of the clock in one second *)
TicksPerSecond == 2

(* the calls of RecalculateAllCoverageHandler, each with its goroutine *)
Calls == {1, 2}

(* time.Now().Unix(): the whole seconds of the time *)
Unix(t) == t \div TicksPerSecond

(* fmt.Sprintf("recalc_%d", time.Now().Unix()): the job id is the second *)
JobIDs == {Unix(t) : t \in 0..MaxNow}

(* a struct that is not allocated; of RecalculationStatus the fields that    *)
(* are written after the allocation, and JobID                               *)
NoStatus ==
    [allocated |-> FALSE, JobID |-> 0, Status |-> "", Progress |-> 0,
     Total |-> 0, Updated |-> 0, Errors |-> 0, FinishedAt |-> FALSE,
     Message |-> <<>>]

(* job := &RecalculationStatus{JobID, Status: "running", StartedAt, Message} *)
NewStatus(jobID) ==
    [NoStatus EXCEPT !.allocated = TRUE, !.JobID = jobID, !.Status = "running",
                     !.Message = <<"Starting recalculation...">>]

(* mutant: the handler answers without registering the job *)
registerJob_Skipped(reg, jobID, c) == reg

(* s.jobs[jobID] = job, under jobsMu; absent keys map to 0 *)
registerJob(reg, jobID, c) == [reg EXCEPT ![jobID] = c]

(* updateJobStatus, under jobsMu: the struct now registered under jobID *)
updateJobStatus(reg, sts, jobID, status, progress, total, updated, errors, message) ==
    IF reg[jobID] = 0 THEN sts
    ELSE [sts EXCEPT ![reg[jobID]] =
            [@ EXCEPT !.Status = status, !.Progress = progress, !.Total = total,
                      !.Updated = updated, !.Errors = errors,
                      !.Message = message]]

(* performRecalculation, "Mark as completed", under jobsMu *)
markCompleted(reg, sts, jobID, updated, errors) ==
    IF reg[jobID] = 0 THEN sts
    ELSE [sts EXCEPT ![reg[jobID]] =
            [@ EXCEPT !.Status = "completed", !.Progress = 100,
                      !.FinishedAt = TRUE,
                      !.Message = <<"Recalculation complete", updated, errors>>]]

(* the fields of the struct in the order c.JSON writes them *)
Fields == <<"Status", "Progress", "Total", "Updated", "Errors", "FinishedAt",
            "Message">>

(* the struct value v has the fields of the (partial) JSON body *)
agrees(v, body) == \A k \in 1..Len(body) : v[Fields[k]] = body[k]

(* no request yet.  job is the pointer read from the registry, body the      *)
(* fields written to the response so far; cands is history: the values the   *)
(* struct has held since the pointer was read that have the fields of body.  *)
NoReader ==
    [pc |-> "idle", jobID |-> 0, job |-> 0, code |-> 0, body |-> <<>>,
     cands |-> {}]

(* the history of the request after a write to the structs *)
observed(rd, sts) ==
    IF rd.pc = "marshal" /\ agrees(sts[rd.job], rd.body)
    THEN [rd EXCEPT !.cands = @ \cup {sts[rd.job]}]
    ELSE rd

(* a goroutine that was not started; failed: the initial query failed *)
NoRecalculation ==
    [pc |-> "idle", jobID |-> 0, total |-> 0, i |-> 0, updated |-> 0,
     errors |-> 0, failed |-> FALSE]

(* RecalculateAllCoverageHandler, call c at time t: registers the job under  *)
(* the id of the current second, starts the goroutine and answers with the   *)
(* id.  The calls are numbered in the order they are made.                   *)
RecalculateAllCoverageHandler(c, t) ==
    LET jobID == Unix(t)
    IN /\ recalculations[c].pc = "idle"
       /\ \A o \in Calls : o < c => recalculations[o].pc # "idle"
       /\ now <= t
       /\ now' = t
       /\ statuses' = [statuses EXCEPT ![c] = NewStatus(jobID)]
       /\ jobs' = registerJob(jobs, jobID, c)
       /\ recalculations' = [recalculations EXCEPT ![c] =
             [NoRecalculation EXCEPT !.pc = "query", !.jobID = jobID]]
       /\ returned' = returned \cup {jobID}
       /\ UNCHANGED <<reader, outsideRecalc>>

(* progress := ((i + 1) * 100) / total *)
progressOf(i, total) == ((i + 1) * 100) \div total

(* performRecalculation: the query for the attributed activities; an error   *)
(* ends the job with status "error", else total is the number of rows read   *)
QueryActivities(c) ==
    LET r == recalculations[c]
    IN /\ r.pc = "query"
       /\ \E ok \in BOOLEAN, n \in 0..MaxTotal :
            /\ ~ok => n = 0
            /\ statuses' =
                 IF ok
                 THEN updateJobStatus(jobs, statuses, r.jobID, "running", 0, n, 0, 0,
                                      <<"Processing", n>>)
                 ELSE updateJobStatus(jobs, statuses, r.jobID, "error", 0, 0, 0, 0,
                                      <<"Failed to fetch activities">>)
            /\ recalculations' = [recalculations EXCEPT ![c] =
                 IF ok THEN [r EXCEPT !.pc = "loop", !.total = n]
                       ELSE [r EXCEPT !.pc = "done", !.failed = TRUE]]
       /\ reader' = observed(reader, statuses')
       /\ UNCHANGED <<now, jobs, returned, outsideRecalc>>

(* performRecalculation: one pass of the loop; err is an error of            *)
(* calculateGridBasedCoverage or of the UPDATE                               *)
RecalculateActivity(c) ==
    LET r == recalculations[c]
    IN /\ r.pc = "loop" /\ r.i < r.total
       /\ \E err \in BOOLEAN :
            LET updated == IF err THEN r.updated ELSE r.updated + 1
                errors == IF err THEN r.errors + 1 ELSE r.errors
            IN /\ statuses' =
                    IF (r.i + 1) % ProgressEvery = 0 \/ r.i = r.total - 1
                    THEN updateJobStatus(jobs, statuses, r.jobID, "running",
                                         progressOf(r.i, r.total), r.total,
                                         updated, errors,
                                         <<"Processed", r.i + 1, r.total, updated, errors>>)
                    ELSE statuses
               /\ recalculations' = [recalculations EXCEPT ![c] =
                    [r EXCEPT !.i = @ + 1, !.updated = updated, !.errors = errors]]
       /\ reader' = observed(reader, statuses')
       /\ UNCHANGED <<now, jobs, returned, outsideRecalc>>

(* performRecalculation, after the loop *)
MarkCompleted(c) ==
    LET r == recalculations[c]
    IN /\ r.pc = "loop" /\ r.i = r.total
       /\ statuses' = markCompleted(jobs, statuses, r.jobID, r.updated, r.errors)
       /\ recalculations' = [recalculations EXCEPT ![c].pc = "done"]
       /\ reader' = observed(reader, statuses')
       /\ UNCHANGED <<now, jobs, returned, outsideRecalc>>

performRecalculation(c) ==
    \/ QueryActivities(c)
    \/ RecalculateActivity(c)
    \/ MarkCompleted(c)

(* GetRecalculationStatusHandler: job, exists := s.jobs[jobID] under         *)
(* jobsMu.RLock; 404 when the id is not registered                           *)
LookupJob(jobID) ==
    /\ reader.pc = "idle"
    /\ reader' = IF jobs[jobID] = 0
                 THEN [reader EXCEPT !.pc = "done", !.jobID = jobID, !.code = 404]
                 ELSE [reader EXCEPT !.pc = "marshal", !.jobID = jobID,
                                     !.job = jobs[jobID],
                                     !.cands = {statuses[jobs[jobID]]}]
    /\ UNCHANGED <<now, jobs, statuses, recalculations, returned,
                   outsideRecalc>>

(* GetRecalculationStatusHandler: c.JSON(http.StatusOK, job) reads the       *)
(* fields through the pointer after RUnlock, one field at a time             *)
MarshalField ==
    /\ reader.pc = "marshal"
    /\ LET body == Append(reader.body, statuses[reader.job][Fields[Len(reader.body) + 1]])
           read == [reader EXCEPT !.body = body,
                                  !.cands = {v \in @ : agrees(v, body)}]
       IN reader' = IF Len(body) = Len(Fields)
                    THEN [read EXCEPT !.pc = "done", !.code = 200]
                    ELSE read
    /\ UNCHANGED <<now, jobs, statuses, recalculations, returned,
                   outsideRecalc>>

GetRecalculationStatusHandler ==
    \/ \E jobID \in JobIDs : LookupJob(jobID)
    \/ MarshalField

----------------------------------------------------------------------------
(* The comment-posting paths: the delta notifier                             *)
(* (comments.ProcessAutoCommentsForUser), the single-activity post           *)
(* (PostCoverageCommentHandler), post-all-uncommented                        *)
(* (PostAllUncommentedHandler) and the webhook (postCoverageComment).        *)

(* the delta notifier runs and the other paths *)
NotifierRuns == {"notifier1", "notifier2"}
Paths == NotifierRuns \cup {"single", "postall", "webhook"}

(* coverage_percentage IS NULL *)
NullCoverage == 0 - 1

(* the user's two activities, A1 before A2; coverage_percentage is           *)
(* DECIMAL(5,2), here in hundredths of a percent; A2 lies in city c and has  *)
(* the coverage cov                                                          *)
ScenarioRows(c, cov) ==
    [id \in ActivityIDs |->
        IF id = 1
        THEN [user_id |-> 1, city_id |-> 1, start_date |-> 1,
              coverage_percentage |-> 500, activity_type |-> "Run",
              commented_at |-> NULL, comment_posted |-> FALSE]
        ELSE [user_id |-> 1, city_id |-> c, start_date |-> 2,
              coverage_percentage |-> cov, activity_type |-> "Ride",
              commented_at |-> NULL, comment_posted |-> FALSE]]

(* a row of comment_settings with the defaults of the table, in hundredths   *)
(* for min_coverage_increase (0.1), and the switches enabled and             *)
(* cycling_enabled as given; present is FALSE when the user has no row       *)
CommentSettings(present, enabled, cycling) ==
    [present |-> present,
     Enabled |-> enabled, RunningEnabled |-> TRUE, CyclingEnabled |-> cycling,
     WalkingEnabled |-> TRUE, HikingEnabled |-> TRUE, EBikingEnabled |-> TRUE,
     SkiingEnabled |-> TRUE, MinCoverageIncrease |-> 10]

(* the user has no row in comment_settings *)
NoSettings == CommentSettings(FALSE, FALSE, TRUE)

(* mutant: the settings returned for a user without a row are enabled *)
GetUserCommentSettings_DefaultEnabled(row) ==
    IF row.present THEN row ELSE CommentSettings(TRUE, TRUE, TRUE)

(* GetUserCommentSettings: the user's row, and without one the default       *)
(* settings, which are disabled                                              *)
GetUserCommentSettings(row) ==
    IF row.present THEN row ELSE CommentSettings(TRUE, FALSE, TRUE)

(* DetectCoverageIncreases: the activities the outer query and the CTE       *)
(* select, those of the user with a coverage and commented_at IS NULL        *)
Uncommented(tbl, userID) ==
    {a \in ActivityIDs : /\ tbl[a].user_id = userID
                         /\ tbl[a].coverage_percentage # NullCoverage
                         /\ tbl[a].commented_at = NULL}

Max(S) == CHOOSE x \in S : \A y \in S : y <= x

(* CTE previous_coverage, the row grouped for a1:                            *)
(* COALESCE(MAX(a2.coverage_percentage), 0) over the user's earlier          *)
(* activities of the city                                                    *)
prev_coverage(tbl, a1) ==
    Max({0} \cup {tbl[a2].coverage_percentage :
                    a2 \in {x \in ActivityIDs :
                              /\ tbl[x].city_id = tbl[a1].city_id
                              /\ tbl[x].user_id = tbl[a1].user_id
                              /\ tbl[x].start_date < tbl[a1].start_date
                              /\ tbl[x].coverage_percentage # NullCoverage}})

(* CTE previous_coverage: one row (city_id, prev_coverage) per a1 *)
previous_coverage(tbl, userID) ==
    {[a1 |-> a1, city_id |-> tbl[a1].city_id,
      prev_coverage |-> prev_coverage(tbl, a1)] : a1 \in Uncommented(tbl, userID)}

(* the outer query: activities a LEFT JOIN previous_coverage pc ON           *)
(* a.city_id = pc.city_id, with increase > 0                                 *)
IncreaseRows(tbl, userID) ==
    LET joined == {x \in Uncommented(tbl, userID) \X previous_coverage(tbl, userID) :
                     tbl[x[1]].city_id = x[2].city_id}
    IN {[ActivityID |-> x[1], a1 |-> x[2].a1,
         ActivityType |-> tbl[x[1]].activity_type,
         ActivityDate |-> tbl[x[1]].start_date,
         Increase |-> tbl[x[1]].coverage_percentage - x[2].prev_coverage] :
           x \in joined}

(* ORDER BY a.start_date ASC; rows of one activity by the CTE row *)
RECURSIVE OrderByStartDate(_)
OrderByStartDate(rows) ==
    IF rows = {} THEN <<>>
    ELSE LET first == CHOOSE r \in rows :
                         \A o \in rows :
                            \/ r.ActivityDate < o.ActivityDate
                            \/ r.ActivityDate = o.ActivityDate /\ r.a1 <= o.a1
         IN <<first>> \o OrderByStartDate(rows \ {first})

DetectCoverageIncreases(tbl, userID) ==
    OrderByStartDate({r \in IncreaseRows(tbl, userID) : r.Increase > 0})

ShouldCommentOnActivity(settings, activityType, increase) ==
    IF ~settings.Enabled \/ increase < settings.MinCoverageIncrease THEN FALSE
    ELSE IF activityType \in {"Run", "VirtualRun"} THEN settings.RunningEnabled
    ELSE IF activityType \in {"Ride", "VirtualRide"} THEN settings.CyclingEnabled
    ELSE IF activityType = "Walk" THEN settings.WalkingEnabled
    ELSE IF activityType = "Hike" THEN settings.HikingEnabled
    ELSE IF activityType = "EBikeRide" THEN settings.EBikingEnabled
    ELSE IF activityType \in {"AlpineSki", "BackcountrySki", "NordicSki"}
         THEN settings.SkiingEnabled
    ELSE TRUE

(* the activity ids of the rows of a result the loop comments on *)
RECURSIVE ToComment(_, _)
ToComment(settings, increases) ==
    IF increases = <<>> THEN <<>>
    ELSE LET r == Head(increases)
         IN (IF ShouldCommentOnActivity(settings, r.ActivityType, r.Increase)
             THEN <<r.ActivityID>> ELSE <<>>)
            \o ToComment(settings, Tail(increases))

(* a path that has not started.  queue is the activities it still has to     *)
(* comment on, the first being the current one; posted is history: its       *)
(* successful PostComment calls per activity; clean is history: it started   *)
(* when no activity of the user had commented_at NULL.                       *)
NoCommenter ==
    [pc |-> "idle", queue |-> <<>>, posted |-> [a \in ActivityIDs |-> 0],
     clean |-> FALSE]

(* mutant: the run ends with the current activity *)
continue_Abort(c) == [c EXCEPT !.queue = <<>>, !.pc = "done"]

(* the loop goes on with the rest of the queue *)
continue(c) ==
    [c EXCEPT !.queue = Tail(@),
              !.pc = IF Tail(c.queue) = <<>> THEN "done" ELSE "post"]

start(c, queue) ==
    [c EXCEPT !.queue = queue, !.pc = IF queue = <<>> THEN "done" ELSE "post"]

(* ProcessAutoCommentsForUser: the settings, then DetectCoverageIncreases *)
StartNotifier(p, userID) ==
    /\ p \in NotifierRuns
    /\ commenters[p].pc = "idle"
    /\ LET settings == GetUserCommentSettings(comment_settings)
       IN commenters' = [commenters EXCEPT ![p] =
            [start(@, IF ~settings.Enabled THEN <<>>
                      ELSE ToComment(settings,
                                     DetectCoverageIncreases(activity_rows, userID)))
               EXCEPT !.clean = (Uncommented(activity_rows, userID) = {})]]
    /\ UNCHANGED <<activity_rows, comment_settings, outsideComments>>

(* PostCoverageCommentHandler: the row, 409 when comment_posted, 400 without *)
(* coverage, 404 without token                                               *)
StartSingle(activityID) ==
    LET row == activity_rows[activityID]
    IN /\ commenters["single"].pc = "idle"
       /\ commenters' = [commenters EXCEPT !["single"] =
            start(@, IF \/ row.comment_posted
                        \/ row.coverage_percentage = NullCoverage
                        \/ row.user_id \notin strava_tokens
                     THEN <<>> ELSE <<activityID>>)]
       /\ UNCHANGED <<activity_rows, comment_settings, outsideComments>>

(* ORDER BY a.created_at DESC: the later activity first *)
RECURSIVE OrderByCreatedDesc(_)
OrderByCreatedDesc(ids) ==
    IF ids = {} THEN <<>>
    ELSE <<Max(ids)>> \o OrderByCreatedDesc(ids \ {Max(ids)})

(* PostAllUncommentedHandler: the rows with comment_posted = false and a     *)
(* coverage; 404 without token                                               *)
StartPostAll(userID) ==
    /\ commenters["postall"].pc = "idle"
    /\ commenters' = [commenters EXCEPT !["postall"] =
         start(@, IF userID \notin strava_tokens THEN <<>>
                  ELSE OrderByCreatedDesc(
                         {a \in ActivityIDs :
                            /\ activity_rows[a].user_id = userID
                            /\ ~activity_rows[a].comment_posted
                            /\ activity_rows[a].coverage_percentage # NullCoverage}))]
    /\ UNCHANGED <<activity_rows, comment_settings, outsideComments>>

(* processNewActivity with result.CoveragePercent > 0: postCoverageComment,  *)
(* which reads user_id and the token and no marker                           *)
StartWebhook(activityID) ==
    /\ commenters["webhook"].pc = "idle"
    /\ commenters' = [commenters EXCEPT !["webhook"] =
         start(@, IF activity_rows[activityID].user_id \notin strava_tokens
                  THEN <<>> ELSE <<activityID>>)]
    /\ UNCHANGED <<activity_rows, comment_settings, outsideComments>>

(* PostCommentToStrava / postStravaComment: the provider adds a comment or   *)
(* the call fails; a failure goes on with the next activity                  *)
PostComment(p) ==
    LET c == commenters[p]
    IN /\ c.pc = "post"
       /\ \E ok \in BOOLEAN :
            commenters' = [commenters EXCEPT ![p] =
               IF ok THEN [c EXCEPT !.pc = "mark", !.posted[Head(c.queue)] = @ + 1]
                     ELSE continue(c)]
       /\ UNCHANGED <<activity_rows, comment_settings, outsideComments>>

(* MarkActivityAsCommented (the notifier): SET commented_at = NOW(); the     *)
(* other paths: SET comment_posted = true                                    *)
markCommented(tbl, p, activityID) ==
    IF p \in NotifierRuns
    THEN [tbl EXCEPT ![activityID].commented_at = "NOW"]
    ELSE [tbl EXCEPT ![activityID].comment_posted = TRUE]

(* after a successful post: the marker, then the next activity *)
MarkCommented(p) ==
    LET c == commenters[p]
    IN /\ c.pc = "mark"
       /\ activity_rows' = markCommented(activity_rows, p, Head(c.queue))
       /\ commenters' = [commenters EXCEPT ![p] = continue(c)]
       /\ UNCHANGED <<comment_settings, outsideComments>>

ProcessAutoCommentsForUser(p) ==
    \/ \E u \in Users : StartNotifier(p, u)
    \/ p \in NotifierRuns /\ PostComment(p)
    \/ p \in NotifierRuns /\ MarkCommented(p)

----------------------------------------------------------------------------
(* The coverage calculations.  Geometry lies on one axis: a point is a       *)
(* position in km, a path the segment between its two ends, the boundary of  *)
(* a city the segment of its radius around its centroid.  Lengths are in km, *)
(* areas in km2, coverage_percentage in hundredths of a percent.             *)

(* city_id IS NULL *)
NullCity == 0

(* 100 percent, in hundredths *)
Percent100 == 10000

Min(S) == CHOOSE x \in S : \A y \in S : x <= y

(* mutant: no cap *)
LEAST_First(x, y) == x

(* LEAST(x, y) of the coverage queries *)
LEAST(x, y) == IF x <= y THEN x ELSE y

(* the two ends of a path *)
(* the ends of the path: a path of one point lies at the start coordinates   *)
Lo(row) == IF row.geometry = "point" THEN row.start ELSE Min({row.start, row.end})
Hi(row) == IF row.geometry = "point" THEN row.start ELSE Max({row.start, row.end})

(* ST_Length(ST_Transform(path, 3857)) / 1000 *)
ST_Length(row) == Hi(row) - Lo(row)

(* ST_Intersects(a.path, c.boundary); NULL, so no row, when path IS NULL *)
ST_Intersects(row, city) ==
    /\ row.path
    /\ Lo(row) <= city.centroid + city.radius
    /\ Hi(row) >= city.centroid - city.radius

(* ST_Length(ST_Intersection(a.path, c.boundary)) *)
IntersectionLength(row, city) ==
    Min({Hi(row), city.centroid + city.radius})
       - Max({Lo(row), city.centroid - city.radius})

(* the city query: ORDER BY the intersection length DESC LIMIT 1; the ids    *)
(* one of which the query returns, none for sql.ErrNoRows                    *)
IntersectingCities(row, cs) ==
    LET hit == {c \in 1..Len(cs) : ST_Intersects(row, cs[c])}
    IN {c \in hit : \A d \in hit :
           IntersectionLength(row, cs[d]) <= IntersectionLength(row, cs[c])}

(* user_distance: SUM of the path lengths of the user's activities with      *)
(* city_id = the city and a path, COALESCE 0                                 *)
total_distance_km(tbl, userID, cityID) ==
    LET rows == {a \in DOMAIN tbl : /\ tbl[a].user_id = userID
                                    /\ tbl[a].city_id = cityID
                                    /\ tbl[a].path}
        sum[S \in SUBSET rows] ==
            IF S = {} THEN 0
            ELSE LET a == CHOOSE x \in S : TRUE
                 IN ST_Length(tbl[a]) + sum[S \ {a}]
    IN sum[rows]

(* mutant: 60 km per km2 for every city *)
estimated_explorable_km_Flat(area_km2) == area_km2 * 60

(* city_explorable: the CASE over the area of the city *)
estimated_explorable_km(area_km2) ==
    IF area_km2 < 50 THEN area_km2 * 80
    ELSE IF area_km2 < 200 THEN area_km2 * 60
    ELSE IF area_km2 < 500 THEN area_km2 * 40
    ELSE area_km2 * 30

(* calculateGridBasedCoverage: the row the coverage query returns *)
calculateGridBasedCoverage(tbl, cs, userID, cityID) ==
    LET total_streets_km == estimated_explorable_km(cs[cityID].area_km2)
        covered_distance_km == total_distance_km(tbl, userID, cityID)
    IN [CityID |-> cityID,
        TotalStreetsKm |-> total_streets_km,
        UniqueStreetsKm |-> covered_distance_km,
        CoveragePercent |->
           IF total_streets_km > 0
           THEN LEAST((covered_distance_km * Percent100) \div total_streets_km,
                      Percent100)
           ELSE 0]

(* strconv.ParseInt(s, 10, 64) on the texts of the model: an optional sign,  *)
(* then one or more decimal digits                                           *)
DigitValue ==
    ("0" :> 0) @@ ("1" :> 1) @@ ("2" :> 2) @@ ("3" :> 3) @@ ("4" :> 4)
    @@ ("5" :> 5) @@ ("6" :> 6) @@ ("7" :> 7) @@ ("8" :> 8) @@ ("9" :> 9)

RECURSIVE ParseDigits(_)
ParseDigits(s) ==
    IF s = <<>> THEN 0
    ELSE 10 * ParseDigits(SubSeq(s, 1, Len(s) - 1)) + DigitValue[s[Len(s)]]

ParseInt(s) ==
    LET signed == s # <<>> /\ s[1] \in {"+", "-"}
        digits == IF signed THEN Tail(s) ELSE s
    IN IF digits = <<>> \/ \E i \in 1..Len(digits) : digits[i] \notin DOMAIN DigitValue
       THEN [err |-> TRUE, value |-> 0]
       ELSE [err |-> FALSE,
             value |-> IF signed /\ s[1] = "-" THEN 0 - ParseDigits(digits)
                       ELSE ParseDigits(digits)]

(* the texts of the path parameter activityId *)
ActivityIdParams ==
    {<<"1">>, <<"2">>, <<"3">>, <<"9">>, <<"x">>, <<"1", "x">>, <<"-", "1">>}

(* no call of CalculateCoverageHandler since the last other write *)
NoCalc == [param |-> <<>>, status |-> 0, error |-> "", CityID |-> NullCity,
           CoveragePercent |-> NullCoverage]

(* mutant: an error response clears the coverage of the activities *)
ErrorResponse_Clearing(param, status, error) ==
    /\ calc' = [NoCalc EXCEPT !.param = param, !.status = status, !.error = error]
    /\ activity_paths' =
          [a \in DOMAIN activity_paths |->
              [activity_paths[a] EXCEPT !.coverage_percentage = NullCoverage]]
    /\ UNCHANGED <<cities, custom_areas, resolvers, outsideSpatial>>

(* utils.ErrorResponse and return: the handler has written nothing *)
ErrorResponse(param, status, error) ==
    /\ calc' = [NoCalc EXCEPT !.param = param, !.status = status, !.error = error]
    /\ UNCHANGED <<cities, activity_paths, custom_areas, resolvers, outsideSpatial>>

(* CalculateCoverageHandler: 400 for a parameter that is no integer, 404     *)
(* without the activity, 404 without an intersecting city; otherwise the     *)
(* coverage of the user in the city, the UPDATE of city_id and               *)
(* coverage_percentage, and the result                                       *)
CalculateCoverageHandler(param) ==
    LET parsed == ParseInt(param)
        activityID == parsed.value
    IN IF parsed.err
       THEN ErrorResponse(param, 400, "Invalid activity ID")
       ELSE IF activityID \notin DOMAIN activity_paths
       THEN ErrorResponse(param, 404, "Activity not found")
       ELSE IF IntersectingCities(activity_paths[activityID], cities) = {}
       THEN ErrorResponse(param, 404, "No city intersection")
       ELSE \E cityID \in IntersectingCities(activity_paths[activityID], cities) :
               LET result == calculateGridBasedCoverage(
                                activity_paths, cities,
                                activity_paths[activityID].user_id, cityID)
               IN /\ activity_paths' =
                        [activity_paths EXCEPT
                            ![activityID].city_id = cityID,
                            ![activityID].coverage_percentage = result.CoveragePercent]
                  /\ calc' = [param |-> param, status |-> 200, error |-> "",
                              CityID |-> cityID,
                              CoveragePercent |-> result.CoveragePercent]
                  /\ UNCHANGED <<cities, custom_areas, resolvers, outsideSpatial>>

(* performRecalculation, the table side of one pass of its loop: an activity *)
(* with a city gets the coverage of its user in that city                    *)
recalculateActivity(activityID) ==
    LET row == activity_paths[activityID]
    IN /\ row.city_id # NullCity
       /\ activity_paths' =
             [activity_paths EXCEPT ![activityID].coverage_percentage =
                 calculateGridBasedCoverage(activity_paths, cities, row.user_id,
                                            row.city_id).CoveragePercent]
       /\ calc' = NoCalc
       /\ UNCHANGED <<cities, custom_areas, resolvers, outsideSpatial>>

(* the positions of a segment lo..hi that a path of the set covers *)
Covered(tbl, rows, lo, hi) ==
    {x \in lo..(hi - 1) : \E a \in rows : Lo(tbl[a]) <= x /\ x + 1 <= Hi(tbl[a])}

(* calculateCityCoverage (login): the share of the boundary of the city that *)
(* the buffered paths of the user's activities of the city cover, written to *)
(* all of them; 0 for a city without area                                    *)
calculateCityCoverage(userID, cityID) ==
    LET city == cities[cityID]
        user_activities == {a \in DOMAIN activity_paths :
                              /\ activity_paths[a].user_id = userID
                              /\ activity_paths[a].city_id = cityID
                              /\ activity_paths[a].path}
        area == 2 * city.radius
        covered == Cardinality(Covered(activity_paths, user_activities,
                                       city.centroid - city.radius,
                                       city.centroid + city.radius))
        value == IF user_activities = {} THEN NullCoverage
                 ELSE IF area > 0 THEN (covered * Percent100) \div area
                 ELSE 0
    IN /\ \E a \in DOMAIN activity_paths :
             activity_paths[a].user_id = userID /\ activity_paths[a].city_id = cityID
       /\ activity_paths' =
             [a \in DOMAIN activity_paths |->
                 IF activity_paths[a].user_id = userID
                       /\ activity_paths[a].city_id = cityID
                 THEN [activity_paths[a] EXCEPT !.coverage_percentage = value]
                 ELSE activity_paths[a]]
       /\ calc' = NoCalc
       /\ UNCHANGED <<cities, custom_areas, resolvers, outsideSpatial>>

(* the reach of the three coverage layers (25 m, 50 m, 100 m) in steps of    *)
(* the grid                                                                  *)
DirectReach == 0
CloseReach == 1
ModerateReach == 2

(* ST_DWithin(path, point, reach) *)
ST_DWithin(row, x, reach) == Lo(row) - reach <= x /\ x <= Hi(row) + reach

(* coverageQuery of calculateCoverageAsync: the activities of the owner that *)
(* intersect the area, the grid points the area contains, and per layer the  *)
(* number of grid points within its reach of one of the activities.  Over a  *)
(* grid without points the sums are NULL and the row does not scan into the  *)
(* struct (scans).                                                           *)
coverageQuery(tbl, areas, areaID) ==
    LET area == areas[areaID]
        intersecting_activities ==
            {a \in DOMAIN tbl :
                /\ tbl[a].user_id = area.user_id
                /\ tbl[a].path
                /\ Lo(tbl[a]) <= area.hi
                /\ Hi(tbl[a]) >= area.lo}
        fine_grid == {x \in area.lo..area.hi : area.lo < x /\ x < area.hi}
        covered(reach) ==
            {x \in fine_grid : \E a \in intersecting_activities :
                ST_DWithin(tbl[a], x, reach)}
        total_points == Cardinality(fine_grid)
        direct_covered_points == Cardinality(covered(DirectReach))
    IN [scans |-> total_points > 0,
        coverage_percentage |->
            IF total_points > 0
            THEN LEAST((direct_covered_points * Percent100) \div total_points,
                       Percent100)
            ELSE 0,
        activities_count |-> Cardinality(intersecting_activities),
        grid_points_total |-> total_points,
        direct_covered_points |-> direct_covered_points,
        close_covered_points |-> Cardinality(covered(CloseReach)),
        moderate_covered_points |-> Cardinality(covered(ModerateReach))]

(* calculateCoverageAsync (custom area): the result of the query is written  *)
(* to the area; when the row does not scan the error is printed and nothing  *)
(* is written.  calculated is history: the calculation has run for the       *)
(* geometry the row has.                                                     *)
calculateCoverageAsync(areaID) ==
    LET coverage == coverageQuery(activity_paths, custom_areas, areaID)
    IN /\ custom_areas' =
             IF ~coverage.scans
             THEN [custom_areas EXCEPT ![areaID].calculated = TRUE]
             ELSE [custom_areas EXCEPT
                     ![areaID].coverage_percentage = coverage.coverage_percentage,
                     ![areaID].activities_count = coverage.activities_count,
                     ![areaID].calculated = TRUE]
       /\ calc' = NoCalc
       /\ UNCHANGED <<cities, activity_paths, resolvers, outsideSpatial>>

----------------------------------------------------------------------------
(* The custom areas: createCustomArea, updateCustomArea and coordinatesToWKT. *)
(* A coordinate is the pair <<lat, lng>>, a point of a polygon text the pair *)
(* <<lng, lat>>.                                                             *)

(* the rows create may add *)
MaxAreas == 2

(* the coordinate lists of the requests: none, one, two, three with two      *)
(* distinct, three equal, an open triangle, a closed triangle, the closed    *)
(* triangle of two distinct vertices, an open square; first and last of      *)
(* <<V1, V2, V4>> agree in the latitude only                                 *)
V1 == <<0, 0>>
V2 == <<0, 1>>
V3 == <<1, 1>>
V4 == <<0, 2>>
CoordinateLists ==
    {<<>>, <<V1>>, <<V1, V2>>, <<V1, V2, V1>>, <<V1, V1, V1>>, <<V1, V2, V3>>,
     <<V1, V2, V3, V1>>, <<V1, V2, V2, V1>>, <<V1, V2, V4>>, <<V3, V2, V1, V4>>}

(* CreateCustomAreaRequest: bound is whether ShouldBindJSON accepts the body *)
CreateCustomAreaRequest == [bound : BOOLEAN, Coordinates : CoordinateLists]

(* the texts of the path parameters userId and id *)
IdParams == {<<"1">>, <<"2">>, <<"x">>}

NoResponse == [op |-> "", param |-> <<>>, Coordinates |-> <<>>,
               polygonWKT |-> <<>>, status |-> 0, error |-> ""]

(* mutant: the ring is closed on the latitude alone *)
coordinatesToWKT_LatitudeOnly(coords) ==
    IF Len(coords) = 0 THEN <<>>
    ELSE LET points == [i \in 1..Len(coords) |-> <<coords[i][2], coords[i][1]>>]
         IN IF coords[1][1] # coords[Len(coords)][1]
            THEN Append(points, <<coords[1][2], coords[1][1]>>)
            ELSE points

(* coordinatesToWKT: the points "lng lat" of the coordinates in their order, *)
(* and the first again when the last coordinate is not the first; the empty  *)
(* text for no coordinate                                                    *)
coordinatesToWKT(coords) ==
    IF Len(coords) = 0 THEN <<>>
    ELSE LET points == [i \in 1..Len(coords) |-> <<coords[i][2], coords[i][1]>>]
         IN IF coords[1][1] # coords[Len(coords)][1]
               \/ coords[1][2] # coords[Len(coords)][2]
            THEN Append(points, <<coords[1][2], coords[1][1]>>)
            ELSE points

(* ST_GeomFromText of a polygon text: the outcomes of the statement.  A      *)
(* closed ring of four points or more is read; what the database does with a *)
(* shorter ring or with the empty text is not decided by this repository.    *)
ST_GeomFromText(wkt) ==
    IF Len(wkt) >= 4 /\ wkt[1] = wkt[Len(wkt)] THEN {TRUE} ELSE BOOLEAN

(* the extent of the polygon on the axis of the activities *)
AreaLo(wkt) == Min({wkt[i][1] : i \in 1..Len(wkt)} \cup {0})
AreaHi(wkt) == Max({wkt[i][1] : i \in 1..Len(wkt)} \cup {0})

AreaResponse(op, param, req, wkt, status, error) ==
    [op |-> op, param |-> param, Coordinates |-> req.Coordinates,
     polygonWKT |-> wkt, status |-> status, error |-> error]

(* createCustomArea: POST /api/custom-areas/user/:userId *)
createCustomArea(param, req) ==
    LET userID == ParseInt(param)
        polygonWKT == coordinatesToWKT(req.Coordinates)
    IN /\ Len(custom_areas) < MaxAreas
       /\ IF userID.err
          THEN /\ area_response' = AreaResponse("create", param, req, <<>>, 400,
                                                "Invalid user ID")
               /\ UNCHANGED custom_areas
          ELSE IF ~req.bound
          THEN /\ area_response' = AreaResponse("create", param, req, <<>>, 400,
                                                "bind")
               /\ UNCHANGED custom_areas
          ELSE IF Len(req.Coordinates) < 3
          THEN /\ area_response' = AreaResponse("create", param, req, <<>>, 400,
                                   "Polygon must have at least 3 points")
               /\ UNCHANGED custom_areas
          ELSE \E stored \in ST_GeomFromText(polygonWKT) :
                  IF stored
                  THEN /\ custom_areas' = Append(custom_areas,
                             [user_id |-> userID.value, geometry |-> polygonWKT,
                              lo |-> AreaLo(polygonWKT), hi |-> AreaHi(polygonWKT),
                              coverage_percentage |-> NullCoverage,
                              activities_count |-> 0, calculated |-> FALSE])
                       /\ area_response' = AreaResponse("create", param, req,
                                                        polygonWKT, 201, "")
                  ELSE /\ area_response' = AreaResponse("create", param, req,
                             polygonWKT, 500, "Failed to create custom area")
                       /\ UNCHANGED custom_areas
       /\ UNCHANGED outsideAreas

(* updateCustomArea: PUT /api/custom-areas/:id; without row of the id the    *)
(* statement returns no row and the scan fails                               *)
updateCustomArea(param, req) ==
    LET id == ParseInt(param)
        polygonWKT == coordinatesToWKT(req.Coordinates)
    IN /\ IF id.err
          THEN /\ area_response' = AreaResponse("update", param, req, <<>>, 400,
                                                "Invalid area ID")
               /\ UNCHANGED custom_areas
          ELSE IF ~req.bound
          THEN /\ area_response' = AreaResponse("update", param, req, <<>>, 400,
                                                "bind")
               /\ UNCHANGED custom_areas
          ELSE \E stored \in ST_GeomFromText(polygonWKT) :
                  IF stored /\ id.value \in 1..Len(custom_areas)
                  THEN /\ custom_areas' = [custom_areas EXCEPT
                             ![id.value].geometry = polygonWKT,
                             ![id.value].lo = AreaLo(polygonWKT),
                             ![id.value].hi = AreaHi(polygonWKT),
                             ![id.value].calculated = FALSE]
                       /\ area_response' = AreaResponse("update", param, req,
                                                        polygonWKT, 200, "")
                  ELSE /\ area_response' = AreaResponse("update", param, req,
                             polygonWKT, 500, "Failed to update custom area")
                       /\ UNCHANGED custom_areas
       /\ UNCHANGED outsideAreas

----------------------------------------------------------------------------
(* The region resolver: mapActivitiesToCities with createActivityGeometries  *)
(* and discoverAndCreateCitiesFromAllActivities.                             *)

(* the users of the resolver and its passes *)
Athletes == {1, 2}
Passes == {1, 2}

(* ROUND(x, 1) of a coordinate: 0.1 degree is 11 km *)
CellKm == 11

(* HAVING COUNT >= 5 and LIMIT 20 of the cluster query *)
MinClusterSize == 5
ClusterLimit == 20

(* ST_DWithin(..., 20000) and ST_Buffer(..., 10000), in km *)
NearbyKm == 20
BufferKm == 10

(* the area of the buffer of 10 km, in km2 *)
BufferAreaKm2 == 314

(* the names the geocoding service gives: one per stretch of 50 km *)
NameRegionKm == 50

Abs(x) == IF x < 0 THEN 0 - x ELSE x

(* ROUND(ST_Y(ST_StartPoint(path))::numeric, 1) *)
Cell(x) == (x + CellKm \div 2) \div CellKm

(* a pass that has not started.  clusters is the rows of the cluster query   *)
(* the loop still has to handle, name and countryCode the result of the      *)
(* geocoding of the first; before is history: the tables when the pass       *)
(* started; settled is history: when the pass started, a pass for the same   *)
(* user had ended and no pass was running.                                   *)
NoResolver ==
    [pc |-> "idle", userID |-> 0, clusters |-> <<>>, name |-> <<>>,
     countryCode |-> "", before |-> <<>>, settled |-> FALSE, errors |-> {}]

(* mapActivitiesToCities(userID) is called *)
StartResolver(r, userID) ==
    /\ resolvers[r].pc = "idle"
    /\ resolvers' = [resolvers EXCEPT ![r] =
          [@ EXCEPT !.pc = "polyline", !.userID = userID,
                    !.before = <<cities, activity_paths>>,
                    !.settled =
                       /\ \A o \in Passes \ {r} : resolvers[o].pc \in {"idle", "done"}
                       /\ \E o \in Passes \ {r} : /\ resolvers[o].pc = "done"
                                                  /\ resolvers[o].userID = userID]]
    /\ calc' = NoCalc
    /\ UNCHANGED <<cities, activity_paths, custom_areas, outsideSpatial>>

(* createActivityGeometries, the first statement: path from the polyline for *)
(* the user's activities without path                                        *)
PolylineGeometries(r) ==
    LET userID == resolvers[r].userID
    IN /\ resolvers[r].pc = "polyline"
       /\ activity_paths' =
             [a \in DOMAIN activity_paths |->
                 IF /\ activity_paths[a].user_id = userID
                    /\ ~activity_paths[a].path
                    /\ activity_paths[a].polyline
                 THEN [activity_paths[a] EXCEPT !.path = TRUE,
                                                !.geometry = "polyline"]
                 ELSE activity_paths[a]]
       /\ resolvers' = [resolvers EXCEPT ![r].pc = "coords"]
       /\ calc' = NoCalc
       /\ UNCHANGED <<cities, custom_areas, outsideSpatial>>

(* the text of the linestring of coordQuery: the start point, and the end    *)
(* point when the row has end coordinates that differ from the start         *)
(* mutant: the end point is always written *)
LINESTRING_TwoPoints(row) == "line"

LINESTRING(row) ==
    IF row.endlatlng /\ row.end # row.start THEN "line" ELSE "point"

(* createActivityGeometries, the second statement: a linestring of the start *)
(* and end coordinates for the activities still without path                 *)
CoordinateGeometries(r) ==
    LET userID == resolvers[r].userID
    IN /\ resolvers[r].pc = "coords"
       /\ activity_paths' =
             [a \in DOMAIN activity_paths |->
                 IF /\ activity_paths[a].user_id = userID
                    /\ ~activity_paths[a].path
                    /\ activity_paths[a].latlng
                 THEN [activity_paths[a] EXCEPT !.path = TRUE,
                                                !.geometry = LINESTRING(activity_paths[a])]
                 ELSE activity_paths[a]]
       /\ resolvers' = [resolvers EXCEPT ![r].pc = "clusters"]
       /\ calc' = NoCalc
       /\ UNCHANGED <<cities, custom_areas, outsideSpatial>>

(* the sum of the start points of a set of activities *)
SumStart(tbl, rows) ==
    LET sum[S \in SUBSET rows] ==
            IF S = {} THEN 0
            ELSE LET a == CHOOSE x \in S : TRUE
                 IN tbl[a].start + sum[S \ {a}]
    IN sum[rows]

(* the groups of the cluster query: the user's activities with a path by the *)
(* cell of their start point, those of at least 5 activities, with the       *)
(* average start point                                                       *)
ClusterRows(tbl, userID) ==
    LET withPath == {a \in DOMAIN tbl : tbl[a].user_id = userID /\ tbl[a].path}
        group(c) == {a \in withPath : Cell(tbl[a].start) = c}
    IN {[activity_count |-> Cardinality(group(c)),
         avg |-> SumStart(tbl, group(c)) \div Cardinality(group(c))] :
           c \in {k \in {Cell(tbl[a].start) : a \in withPath} :
                     Cardinality(group(k)) >= MinClusterSize}}

(* ORDER BY activity_count DESC *)
RECURSIVE OrderByCountDesc(_)
OrderByCountDesc(rows) ==
    IF rows = {} THEN <<>>
    ELSE LET first == CHOOSE x \in rows :
                         \A y \in rows :
                            \/ y.activity_count < x.activity_count
                            \/ y.activity_count = x.activity_count /\ x.avg <= y.avg
         IN <<first>> \o OrderByCountDesc(rows \ {first})

(* LIMIT n *)
Limit(rows, n) == SubSeq(rows, 1, LEAST(Len(rows), n))

(* the loop goes to the next cluster, and after the last to the mapping *)
nextCluster(rs) ==
    [rs EXCEPT !.clusters = Tail(@), !.name = <<>>, !.countryCode = "",
               !.pc = IF Tail(rs.clusters) = <<>> THEN "map" ELSE "check"]

(* discoverAndCreateCitiesFromAllActivities: the cluster query *)
FindClusters(r) ==
    LET found == Limit(OrderByCountDesc(
                          ClusterRows(activity_paths, resolvers[r].userID)),
                       ClusterLimit)
    IN /\ resolvers[r].pc = "clusters"
       /\ resolvers' = [resolvers EXCEPT ![r] =
             [@ EXCEPT !.clusters = found,
                       !.pc = IF found = <<>> THEN "map" ELSE "check"]]
       /\ calc' = NoCalc
       /\ UNCHANGED <<cities, activity_paths, custom_areas, outsideSpatial>>

(* reverseGeocodeCity: the name the service gives for the place, or the      *)
(* fallback name made of the coordinates when the service fails              *)
reverseGeocodeCity(x) ==
    {[name |-> <<"city", x \div NameRegionKm>>, countryCode |-> "GB"],
     [name |-> <<"Area", x>>, countryCode |-> "XX"]}

(* the check query: the cities of that name and country or with the centroid *)
(* of the boundary within 20 km                                              *)
existingCount(cs, name, countryCode, x) ==
    Cardinality({c \in 1..Len(cs) :
                    \/ cs[c].name = name /\ cs[c].country_code = countryCode
                    \/ Abs(cs[c].centroid - x) <= NearbyKm})

(* the loop of the discovery for one cluster: the name, then the check       *)
CheckCluster(r) ==
    LET rs == resolvers[r]
        x == Head(rs.clusters).avg
    IN /\ rs.pc = "check"
       /\ \E g \in reverseGeocodeCity(x) :
             resolvers' = [resolvers EXCEPT ![r] =
                IF existingCount(cities, g.name, g.countryCode, x) > 0
                THEN nextCluster(rs)
                ELSE [rs EXCEPT !.pc = "create", !.name = g.name,
                                !.countryCode = g.countryCode]]
       /\ calc' = NoCalc
       /\ UNCHANGED <<cities, activity_paths, custom_areas, outsideSpatial>>

(* createCityFromCoordinates: the city with the buffer of 10 km around the   *)
(* point as boundary                                                         *)
createCityFromCoordinates(cs, name, countryCode, x, r) ==
    Append(cs, [name |-> name, country_code |-> countryCode, centroid |-> x,
                radius |-> BufferKm, area_km2 |-> BufferAreaKm2,
                discovered |-> r])

CreateCity(r) ==
    LET rs == resolvers[r]
    IN /\ rs.pc = "create"
       /\ cities' = createCityFromCoordinates(cities, rs.name, rs.countryCode,
                                              Head(rs.clusters).avg, r)
       /\ resolvers' = [resolvers EXCEPT ![r] = nextCluster(rs)]
       /\ calc' = NoCalc
       /\ UNCHANGED <<activity_paths, custom_areas, outsideSpatial>>

(* the rows the mapping statement updates *)
Unmapped(tbl, userID) ==
    {a \in DOMAIN tbl : /\ tbl[a].user_id = userID
                        /\ tbl[a].path
                        /\ tbl[a].city_id = NullCity}

(* mutant: the mapping sees the cities as they were before the discovery *)
MapToCities_BeforeDiscovery(r) ==
    LET userID == resolvers[r].userID
        rows == Unmapped(activity_paths, userID)
        known == resolvers[r].before[1]
        choices == [a \in rows |-> IntersectingCities(activity_paths[a], known)]
    IN /\ resolvers[r].pc = "map"
       /\ \E first \in 0..Len(cities) :
             /\ first = 0 <=> \A a \in rows : Cardinality(choices[a]) < 2
             /\ activity_paths' =
                   [a \in DOMAIN activity_paths |->
                       IF a \notin rows THEN activity_paths[a]
                       ELSE [activity_paths[a] EXCEPT !.city_id =
                               IF choices[a] = {} THEN NullCity
                               ELSE IF first \in choices[a] THEN first
                               ELSE Min(choices[a])]]
       /\ resolvers' = [resolvers EXCEPT ![r].pc = "done"]
       /\ calc' = NoCalc
       /\ UNCHANGED <<cities, custom_areas, outsideSpatial>>

(* mapActivitiesToCities, the mapping statement: the city of the longest     *)
(* intersection for each of the user's activities with a path and without    *)
(* city, NULL without intersecting city.  Among cities of equal intersection *)
(* length LIMIT 1 takes the one the scan of cities meets first: the city     *)
(* first, which is not fixed, and otherwise the one of the smallest id.      *)
MapToCities(r) ==
    LET userID == resolvers[r].userID
        rows == Unmapped(activity_paths, userID)
        choices == [a \in rows |-> IntersectingCities(activity_paths[a], cities)]
    IN /\ resolvers[r].pc = "map"
       /\ \E first \in 0..Len(cities) :
             /\ first = 0 <=> \A a \in rows : Cardinality(choices[a]) < 2
             /\ activity_paths' =
                   [a \in DOMAIN activity_paths |->
                       IF a \notin rows THEN activity_paths[a]
                       ELSE [activity_paths[a] EXCEPT !.city_id =
                               IF choices[a] = {} THEN NullCity
                               ELSE IF first \in choices[a] THEN first
                               ELSE Min(choices[a])]]
       /\ resolvers' = [resolvers EXCEPT ![r].pc = "done"]
       /\ calc' = NoCalc
       /\ UNCHANGED <<cities, custom_areas, outsideSpatial>>

mapActivitiesToCities(r) ==
    \/ \E u \in Athletes : StartResolver(r, u)
    \/ PolylineGeometries(r)
    \/ CoordinateGeometries(r)
    \/ FindClusters(r)
    \/ CheckCluster(r)
    \/ CreateCity(r)
    \/ MapToCities(r)

(* the statements of a pass that return an error.  The pass records them in  *)
(* errors, which is history.                                                 *)
StatementFails(r, at, to) ==
    /\ resolvers[r].pc = at
    /\ resolvers' = [resolvers EXCEPT ![r] =
          [@ EXCEPT !.pc = to, !.errors = @ \cup {at}]]
    /\ calc' = NoCalc
    /\ UNCHANGED <<cities, activity_paths, custom_areas, outsideSpatial>>

(* createActivityGeometries: polylineQuery fails (a database without         *)
(* ST_LineFromEncodedPolyline); logged, the coordinates are tried            *)
PolylineGeometriesFails(r) == StatementFails(r, "polyline", "coords")

(* createActivityGeometries: coordQuery fails; mapActivitiesToCities returns *)
(* the error                                                                 *)
CoordinateGeometriesFails(r) == StatementFails(r, "coords", "failed")

(* discoverAndCreateCitiesFromAllActivities: the cluster query fails; the    *)
(* warning is logged and the mapping goes on                                 *)
FindClustersFails(r) == StatementFails(r, "clusters", "map")

(* the loop of the discovery: checkQuery or createCityFromCoordinates fails; *)
(* continue with the next cluster                                            *)
ClusterFails(r) ==
    /\ resolvers[r].pc \in {"check", "create"}
    /\ resolvers' = [resolvers EXCEPT ![r] =
          [nextCluster(@) EXCEPT !.errors = @ \cup {resolvers[r].pc}]]
    /\ calc' = NoCalc
    /\ UNCHANGED <<cities, activity_paths, custom_areas, outsideSpatial>>

(* mapActivitiesToCities: the mapping statement fails *)
MapToCitiesFails(r) == StatementFails(r, "map", "failed")

mapActivitiesToCitiesOrError(r) ==
    \/ mapActivitiesToCities(r)
    \/ PolylineGeometriesFails(r)
    \/ CoordinateGeometriesFails(r)
    \/ FindClustersFails(r)
    \/ ClusterFails(r)
    \/ MapToCitiesFails(r)

(* the activities of the list page of the provider: one id, with or without  *)
(* a start date that parses, map.summary_polyline, start_latlng, end_latlng  *)
SummaryIDs == {101}
StravaActivity ==
    [ID : SummaryIDs, StartDate : BOOLEAN, SummaryPolyline : BOOLEAN,
     StartLatLng : BOOLEAN, EndLatLng : BOOLEAN]

(* importActivitySummary: nothing for an id the table has or a start date    *)
(* that does not parse; otherwise the row of the summary fields, which are   *)
(* not the polyline.  The activity starts at 0 and ends at 3.  summary is    *)
(* history: whether the summary carried a polyline.                          *)
importActivitySummary(userID, activity) ==
    /\ activity_paths' =
          IF \E a \in DOMAIN activity_paths :
                activity_paths[a].strava_activity_id = activity.ID
          THEN activity_paths
          ELSE IF ~activity.StartDate THEN activity_paths
          ELSE Append(activity_paths,
                  [user_id |-> userID, strava_activity_id |-> activity.ID,
                   polyline |-> FALSE,
                   latlng |-> activity.StartLatLng,
                   endlatlng |-> activity.EndLatLng,
                   start |-> 0, end |-> 3, path |-> FALSE, geometry |-> "",
                   summary |-> IF activity.SummaryPolyline THEN "polyline"
                               ELSE "none",
                   city_id |-> NullCity,
                   coverage_percentage |-> NullCoverage])
    /\ calc' = NoCalc
    /\ UNCHANGED <<cities, custom_areas, resolvers, outsideSpatial>>

----------------------------------------------------------------------------
(* Pagination of the list endpoints: GetPaginationParams *)

(* a query parameter: not given, or the integer given *)
absent == <<>>

Given(values) == {absent} \cup {<<n>> : n \in values}

LimitValues == Given({-10, 0, 1, 20, 50, 100, 200, 1000, 1001})
OffsetValues == Given({-5, 0, 7})
PageValues == Given({-1, 0, 1, 3})

(* the query string of a request: ?limit=..&offset=..&page=.. *)
Queries == [limit : LimitValues, offset : OffsetValues, page : PageValues]

(* c.ShouldBindQuery(&params): a parameter that is not given leaves the     *)
(* zero value of the field                                                   *)
ShouldBindQuery(query) ==
    [Limit |-> IF query.limit = absent THEN 0 ELSE query.limit[1],
     Offset |-> IF query.offset = absent THEN 0 ELSE query.offset[1],
     Page |-> IF query.page = absent THEN 0 ELSE query.page[1]]

(* GetPaginationParams: the PaginationParams returned for the query *)
PaginationParams(query) ==
    LET params == ShouldBindQuery(query)
        limit == IF params.Limit <= 0 THEN 50
                 ELSE IF params.Limit > 1000 THEN 1000 ELSE params.Limit
        offset == IF params.Offset < 0 THEN 0 ELSE params.Offset
    IN [Limit |-> limit,
        Offset |-> IF params.Page > 0 THEN (params.Page - 1) * limit ELSE offset,
        Page |-> params.Page]

NoPagination == [called |-> FALSE, query |-> [limit |-> absent, offset |-> absent,
                                              page |-> absent],
                 params |-> [Limit |-> 0, Offset |-> 0, Page |-> 0]]

(* a handler calls GetPaginationParams(c) *)
GetPaginationParams(query) ==
    /\ pagination' = [called |-> TRUE, query |-> query,
                      params |-> PaginationParams(query)]
    /\ UNCHANGED outsidePages

InitPages == pagination = NoPagination

----------------------------------------------------------------------------
(* the tables of the ingest are empty and no goroutine is started *)
InitIngest ==
    /\ activities = [r \in ActivityRows |-> 0]
    /\ import_status = [u \in Users |-> NoRow]
    /\ strava_tokens \in SUBSET Users
    /\ goroutines = [t \in Tasks |-> NoGoroutine]
    /\ rateLimitedAt = [u \in Users |-> 0]
    /\ login = NoLogin

(* NewCoverageService: an empty registry *)
InitRecalc ==
    /\ now = 0
    /\ jobs = [id \in JobIDs |-> 0]
    /\ statuses = [c \in Calls |-> NoStatus]
    /\ recalculations = [c \in Calls |-> NoRecalculation]
    /\ returned = {}
    /\ reader = NoReader

(* the user's two activities with A2 in city c, no comment posted yet *)
InitCommentRows(c, cov, settings) ==
    /\ activity_rows = ScenarioRows(c, cov)
    /\ comment_settings = settings
    /\ commenters = [p \in Paths |-> NoCommenter]

(* a seed city: the boundary around the centroid, with its area *)
SeedCity(name, centroid, radius, area_km2) ==
    [name |-> name, country_code |-> "GB", centroid |-> centroid,
     radius |-> radius, area_km2 |-> area_km2, discovered |-> 0]

(* an activity as the import leaves it: no city, no coverage *)
ImportedActivity(userID, polyline, latlng, from, to, path) ==
    [user_id |-> userID, strava_activity_id |-> 0, polyline |-> polyline,
     latlng |-> latlng, endlatlng |-> latlng,
     start |-> from, end |-> to, path |-> path,
     geometry |-> IF ~path THEN "" ELSE IF polyline THEN "polyline" ELSE "line",
     summary |-> "",
     city_id |-> NullCity, coverage_percentage |-> NullCoverage]

(* a city of the given area and a small one beside it; of user 1 an activity *)
(* of 60 km within the first city, one of 100 km through both and one far    *)
(* from both; a custom area of the user                                      *)
InitCoverageRows(area_km2) ==
    /\ cities = <<SeedCity(<<"city", 0>>, 0, 40, area_km2),
                  SeedCity(<<"city", 1>>, 45, 10, 1)>>
    /\ activity_paths =
          (1 :> ImportedActivity(1, TRUE, TRUE, 0 - 30, 30, TRUE))
          @@ (2 :> ImportedActivity(1, TRUE, TRUE, 0, 100, TRUE))
          @@ (3 :> ImportedActivity(1, TRUE, TRUE, 200, 210, TRUE))
    /\ custom_areas = <<[user_id |-> 1,
                         geometry |-> <<<<20, 0>>, <<35, 0>>, <<35, 1>>, <<20, 0>>>>,
                         lo |-> 20, hi |-> 35,
                         coverage_percentage |-> NullCoverage,
                         activities_count |-> 0, calculated |-> FALSE]>>
    /\ area_response = NoResponse
    /\ calc = NoCalc
    /\ resolvers = [r \in Passes |-> NoResolver]

(* the areas of the first city: on both sides of every step of the estimate  *)
CityAreas == {0, 1, 49, 50, 100, 199, 200, 499, 500}

InitCoverage ==
    /\ InitIngest
    /\ InitRecalc
    /\ InitPages
    /\ InitCommentRows(1, 520, CommentSettings(TRUE, TRUE, TRUE))
    /\ \E area_km2 \in CityAreas : InitCoverageRows(area_km2)

(* five imported activities of user 1 around 0, three with polyline and two  *)
(* with coordinates only, and one without either; five of user 2 around x2;  *)
(* the seed cities given                                                     *)
InitResolverRows(x2, seeds) ==
    /\ cities = seeds
    /\ activity_paths =
          [a \in 1..11 |->
              IF a <= 3 THEN ImportedActivity(1, TRUE, FALSE, 0, 3, FALSE)
              ELSE IF a <= 5 THEN ImportedActivity(1, FALSE, TRUE, 0, 3, FALSE)
              ELSE IF a = 6 THEN ImportedActivity(1, FALSE, FALSE, 0, 0, FALSE)
              ELSE ImportedActivity(2, TRUE, TRUE, x2, x2 - 7, FALSE)]
    /\ custom_areas = <<>>
    /\ area_response = NoResponse
    /\ calc = NoCalc
    /\ resolvers = [r \in Passes |-> NoResolver]

(* an old city around 0; of user 1 an activity with polyline and coordinates, *)
(* one with both coordinates, one that ends where it starts, one without end *)
(* coordinates, one without any and one that has its path; of user 2 five    *)
(* activities around x2, far from the city                                   *)
InitGeometryRows ==
    /\ cities = <<SeedCity(<<"old", 0>>, 0, 12, 450)>>
    /\ activity_paths =
          [a \in 1..11 |->
              CASE a = 1 -> ImportedActivity(1, TRUE, TRUE, 0, 3, FALSE)
                [] a = 2 -> ImportedActivity(1, FALSE, TRUE, 0, 3, FALSE)
                [] a = 3 -> ImportedActivity(1, FALSE, TRUE, 0, 0, FALSE)
                [] a = 4 -> [ImportedActivity(1, FALSE, TRUE, 0, 3, FALSE)
                                EXCEPT !.endlatlng = FALSE]
                [] a = 5 -> ImportedActivity(1, FALSE, FALSE, 0, 0, FALSE)
                [] a = 6 -> [ImportedActivity(1, TRUE, TRUE, 0, 3, TRUE)
                                EXCEPT !.geometry = "line"]
                [] OTHER -> ImportedActivity(2, TRUE, TRUE, 40, 33, FALSE)]
    /\ custom_areas = <<>>
    /\ area_response = NoResponse
    /\ calc = NoCalc
    /\ resolvers = [r \in Passes |-> NoResolver]

InitGeometries ==
    /\ InitIngest
    /\ InitRecalc
    /\ InitPages
    /\ InitCommentRows(1, 520, CommentSettings(TRUE, TRUE, TRUE))
    /\ InitGeometryRows
    /\ strava_tokens = Users

InitResolver ==
    /\ InitIngest
    /\ InitRecalc
    /\ InitPages
    /\ InitCommentRows(1, 520, CommentSettings(TRUE, TRUE, TRUE))
    /\ \E x2 \in {15, 40},
          seeds \in {<<>>, <<SeedCity(<<"city", 1>>, 55, 12, 450)>>,
                     <<SeedCity(<<"city", 0>>, 2, 12, 450),
                       SeedCity(<<"old", 0>>, 1, 14, 600)>>} :
          InitResolverRows(x2, seeds)

Init ==
    /\ InitIngest
    /\ InitRecalc
    /\ InitPages
    /\ InitCommentRows(1, 520, CommentSettings(TRUE, TRUE, TRUE))
    /\ InitCoverageRows(100)

(* A2 in the city of A1 or in another one, auto-comments enabled or not *)
InitComments ==
    /\ InitIngest
    /\ InitRecalc
    /\ InitPages
    /\ \E c \in {1, 2}, enabled \in BOOLEAN :
          InitCommentRows(c, 520, CommentSettings(TRUE, enabled, TRUE))
    /\ InitCoverageRows(100)

(* A2 in the city of A1 or in another one, 0.05 or 0.2 above A1; the user    *)
(* without settings row, or with one, auto-comments and cycling enabled or   *)
(* not                                                                       *)
InitNotifier ==
    /\ InitIngest
    /\ InitRecalc
    /\ InitPages
    /\ \E c \in {1, 2}, cov \in {505, 520} :
       \E settings \in {NoSettings} \cup
                        {CommentSettings(TRUE, enabled, cycling) :
                            enabled \in BOOLEAN, cycling \in BOOLEAN} :
          InitCommentRows(c, cov, settings)
    /\ InitCoverageRows(100)

(* the explicit bulk import and the webhook import *)
Next ==
    \/ \E u \in Users : InitialImportHandler(u)
    \/ \E t \in Tasks : performInitialImport(t)
    \/ \E id \in ActivityIDs, u \in Users : importActivityByID(id, u)

Spec == Init /\ [][Next]_vars

(* the import on login and the webhook import *)
NextLogin ==
    \/ \E u \in Users : OAuthCallback(u)
    \/ ProcessUserOnLogin
    \/ importAllActivities
    \/ \E id \in ActivityIDs, u \in Users : importActivityByID(id, u)

SpecLogin == Init /\ [][NextLogin]_vars

(* the calls of GetPaginationParams *)
NextPages == \E query \in Queries : GetPaginationParams(query)

SpecPages == Init /\ [][NextPages]_vars

(* the recalculation jobs *)
NextRecalc ==
    \/ \E c \in Calls, t \in 0..MaxNow : RecalculateAllCoverageHandler(c, t)
    \/ \E c \in Calls : performRecalculation(c)

SpecRecalc == Init /\ [][NextRecalc]_vars

(* one recalculation job and a status request *)
NextStatus ==
    \/ \E t \in 0..MaxNow : RecalculateAllCoverageHandler(1, t)
    \/ performRecalculation(1)
    \/ GetRecalculationStatusHandler

SpecStatus == Init /\ [][NextStatus]_vars

(* the recalculation goroutines are scheduled as long as they can step *)
FairRecalc == SpecRecalc /\ \A c \in Calls : WF_vars(performRecalculation(c))

(* the delta notifier, invoked twice *)
NextNotifier ==
    \E p \in NotifierRuns : ProcessAutoCommentsForUser(p)

SpecNotifier == InitNotifier /\ [][NextNotifier]_vars

(* all comment-posting paths *)
NextComments ==
    \/ \E u \in Users : StartNotifier("notifier1", u)
    \/ \E a \in ActivityIDs : StartSingle(a)
    \/ \E u \in Users : StartPostAll(u)
    \/ \E a \in ActivityIDs : StartWebhook(a)
    \/ \E p \in Paths : PostComment(p)
    \/ \E p \in Paths : MarkCommented(p)

SpecComments == InitComments /\ [][NextComments]_vars

(* the coverage calculations *)
NextCoverage ==
    \/ \E param \in ActivityIdParams : CalculateCoverageHandler(param)
    \/ \E a \in DOMAIN activity_paths : recalculateActivity(a)
    \/ \E u \in Users, c \in 1..Len(cities) : calculateCityCoverage(u, c)
    \/ \E area \in 1..Len(custom_areas) : calculateCoverageAsync(area)

SpecCoverage == InitCoverage /\ [][NextCoverage]_vars

(* the passes of the region resolver *)
NextResolver ==
    \E r \in Passes : mapActivitiesToCities(r)

SpecResolver == InitResolver /\ [][NextResolver]_vars

(* the requests of the custom areas *)
NextCustomAreas ==
    \/ \E param \in IdParams, req \in CreateCustomAreaRequest :
          createCustomArea(param, req)
    \/ \E param \in IdParams, req \in CreateCustomAreaRequest :
          updateCustomArea(param, req)

(* the custom area of user 1 from 20 to 35; of user 1 an activity within it  *)
(* and one near 0, of user 2 an activity within the area                     *)
InitAreaRows ==
    /\ cities = <<>>
    /\ activity_paths =
          (1 :> ImportedActivity(1, TRUE, TRUE, 22, 25, TRUE))
          @@ (2 :> ImportedActivity(2, TRUE, TRUE, 28, 33, TRUE))
          @@ (3 :> ImportedActivity(1, TRUE, TRUE, 1, 2, TRUE))
    /\ custom_areas = <<[user_id |-> 1,
                         geometry |-> <<<<20, 0>>, <<35, 0>>, <<35, 1>>, <<20, 0>>>>,
                         lo |-> 20, hi |-> 35,
                         coverage_percentage |-> NullCoverage,
                         activities_count |-> 0, calculated |-> FALSE]>>
    /\ area_response = NoResponse
    /\ calc = NoCalc
    /\ resolvers = [r \in Passes |-> NoResolver]

InitCustomAreas ==
    /\ InitIngest
    /\ InitRecalc
    /\ InitPages
    /\ InitCommentRows(1, 520, CommentSettings(TRUE, TRUE, TRUE))
    /\ InitAreaRows
    /\ strava_tokens = Users

SpecCustomAreas == InitCustomAreas /\ [][NextCustomAreas]_vars

(* the requests for the areas whose coverage is calculated: two points, a    *)
(* triangle that contains no grid point and one that contains one            *)
AreaPolygons ==
    {req \in CreateCustomAreaRequest :
        req.Coordinates \in {<<V1, V2>>, <<V1, V2, V3>>, <<V1, V2, V4>>}}

(* the custom areas of user 1 and the calculations of their coverage *)
NextAreaCoverage ==
    \/ \E param \in IdParams, req \in AreaPolygons :
          createCustomArea(param, req)
    \/ \E param \in IdParams, req \in AreaPolygons :
          updateCustomArea(param, req)
    \/ \E area \in 1..Len(custom_areas) : calculateCoverageAsync(area)

SpecAreaCoverage == InitCustomAreas /\ [][NextAreaCoverage]_vars

(* the import of the login and two passes, the second called when the first  *)
(* has returned, with statements that may fail                               *)
NextGeometries ==
    \/ \E activity \in StravaActivity : importActivitySummary(1, activity)
    \/ mapActivitiesToCitiesOrError(1)
    \/ /\ resolvers[1].pc \in {"done", "failed"}
       /\ mapActivitiesToCitiesOrError(2)

SpecGeometries == InitGeometries /\ [][NextGeometries]_vars

(* the goroutines: scheduled as long as they can take a step; every provider *)
(* and store call returns                                                    *)
FairSpec == Spec /\ \A t \in Tasks : WF_vars(performInitialImport(t))

----------------------------------------------------------------------------
(* Properties *)

(* a goroutine between its setImportInProgress(userID, true) and the end of  *)
(* its deferred setImportInProgress(userID, false)                           *)
Running == {"token", "fetch", "items", "streams", "finalize", "defer"}

(* a goroutine that requests pages or imports activities *)
Ingesting == {"fetch", "items", "streams"}

RunningTasks(u) ==
    {t \in Tasks : goroutines[t].userID = u /\ goroutines[t].pc \in Running}

(* C1: for every user at most one bulk import goroutine is running at any    *)
(* time, whatever the interleaving of the StartImport requests.              *)
C1_AtMostOneRunning ==
    \A u \in Users : Cardinality(RunningTasks(u)) <= 1

(* C2: the table activities holds at most one row per strava_activity_id.    *)
C2_UniqueProviderActivityID ==
    \A id \in ActivityIDs : CountByStravaID(activities, id) <= 1

(* C2, witness: a bulk import is about to INSERT an activity that was        *)
(* stored since its SELECT COUNT found none.                                 *)
C2_Witness ==
    \E t \in Tasks :
        /\ goroutines[t].pc = "streams"
        /\ CountByStravaID(activities, Head(goroutines[t].activities).ID) = 1

(* C3: a bulk import started after the user's last import ended on a 429 at  *)
(* page p makes its first list request for page p.                           *)
C3_ResumesAtRateLimitedPage ==
    \A t \in Tasks :
        LET g == goroutines[t]
        IN (g.pc = "fetch" /\ g.fetched = 0 /\ g.resumePage > 0)
              => g.page = g.resumePage

(* C4: a bulk import whose first list request was answered 429 ends with     *)
(* error_message set and in_progress = false.                                *)
C4_RateLimitRecorded ==
    \A t \in Tasks :
        LET g == goroutines[t]
        IN (g.pc = "done" /\ g.fetched = 1 /\ g.status = 429)
              => /\ import_status[g.userID].error_message # NULL
                 /\ ~import_status[g.userID].in_progress

C8_NotInProgressMeansNotIngesting ==
    \A t \in Tasks :
        LET g == goroutines[t]
        IN g.pc \in Ingesting => import_status[g.userID].in_progress

(* what the ingest is to import: GPS start coordinates or an encoded         *)
(* polyline, and a type or sport_type among the seven                        *)
Qualifies(hasLatlng, hasPolyline, type, sportType) ==
    /\ hasLatlng \/ hasPolyline
    /\ type \in validTypes \/ sportType \in validTypes

C5_Inv ==
    /\ login.requests <= maxRetries
    /\ \A i \in 1..Len(login.waits) : login.waits[i] = 2 ^ (i - 1)
    /\ login.pc = "backoff" => Len(login.waits) = login.requests - 1
    /\ login.pc = "ratelimit" => /\ login.requests = maxRetries
                                 /\ login.waits = <<1, 2>>

C7_BulkPages ==
    \A t \in Tasks :
        LET g == goroutines[t]
        IN g.pc = "fetch" => /\ g.page = g.fetched + 1
                             /\ g.fetched > 0 => g.hasMore
                             /\ g.page <= PageLimit

(* the login import requests a further page only after a full page, and      *)
(* none beyond the page limit                                                *)
C7_LoginPages ==
    login.pc = "request" => /\ login.page > 1 => login.full
                            /\ login.page <= PageLimit

(* C7: both ingest modes stop at the first page shorter than per_page,       *)
(* request the pages in increasing order and never request a page beyond     *)
(* the page limit.                                                           *)
C7_NoPageBeyondLimit == C7_BulkPages /\ C7_LoginPages

(* C9: every summary an ingest hands to its INSERT qualifies.                *)
C9_OnlyQualifyingInserted ==
    /\ \A t \in Tasks :
          goroutines[t].pc = "streams" =>
             LET a == Head(goroutines[t].activities)
             IN Qualifies(a.StartLatlng, a.SummaryPolyline, a.Type, a.SportType)
    /\ login.pc = "insert" =>
          LET a == Head(login.activities)
          IN Qualifies(a.StartLatLng, a.SummaryPolyline, a.Type, a.SportType)

C10_Inv ==
    \A t \in Tasks :
        LET g == goroutines[t]
        IN /\ g.totalImported + g.totalFailed + CountShouldImport(g.activities)
                 = g.seen
           /\ g.pc \in {"finalize", "defer", "done"} =>
                 g.totalImported + g.totalFailed = g.seen
           /\ (g.pc = "finalize" /\ g.fetched > 0) =>
                 (g.status # 200 \/ ~g.hasMore \/ g.page > PageLimit)

C10_Step ==
    \A t \in Tasks :
        LET g == goroutines[t]
            h == goroutines'[t]
            stored == /\ g.pc = "items" /\ g.activities # <<>>
                      /\ CountByStravaID(activities, Head(g.activities).ID) > 0
        IN /\ h.totalImported >= g.totalImported
           /\ h.totalFailed >= g.totalFailed
           /\ (h.totalImported + h.totalFailed)
                 - (g.totalImported + g.totalFailed) \in {0, 1}
           /\ h.totalFailed > g.totalFailed => h.pc = "items"
           /\ (stored /\ h # g) => /\ h.totalFailed = g.totalFailed
                                   /\ h.totalImported = g.totalImported + 1

C11_HardErrorEndsFailed ==
    \A t \in Tasks :
        LET g == goroutines[t]
        IN (g.pc = "done" /\ g.fetched = 0)
              => /\ import_status[g.userID].error_message # NULL
                 /\ ~import_status[g.userID].in_progress

C12_Inv ==
    login.hasActivities =>
        /\ login.pc \in {"map", "coverage", "done"}
        /\ login.page = 0 /\ login.requests = 0 /\ login.totalImported = 0
        /\ login.pc \in {"coverage", "done"} => login.mapped
        /\ login.pc = "done" => login.covered

(* C12: a login of a user who has a stored activity makes no list request    *)
(* and inserts no activity row, and ProcessUserOnLogin still calls the       *)
(* mapping to cities and then the coverage calculation before it returns.    *)
C12_LoginSkipsImport ==
    /\ []C12_Inv
    /\ [][(login'.hasActivities /\ login' # login)
             => activities' = activities]_vars

(* C12, witness: ProcessUserOnLogin returned after a skipped import.         *)
C12_Witness ==
    login.hasActivities /\ login.pc = "done" /\ login.covered

(* the calls of RecalculateAllCoverageHandler made so far *)
Started == {c \in Calls : recalculations[c].pc # "idle"}

(* C13: any two calls of RecalculateAllCoverageHandler register their jobs   *)
(* under different job ids.                                                  *)
C13_UniqueJobIDs ==
    \A c1, c2 \in Started :
        c1 # c2 => recalculations[c1].jobID # recalculations[c2].jobID

(* the struct a status request for the job id of call c finds *)
StatusOf(c) == statuses[jobs[recalculations[c].jobID]]

(* C14: every job whose initial query succeeded eventually shows             *)
(* status = completed with progress = 100, finished_at set, total the number *)
(* of activities the job read and updated + errors = total.                  *)
C14_EventuallyCompleted ==
    \A c \in Calls :
        (recalculations[c].pc = "loop")
            ~> (/\ recalculations[c].pc = "done"
                /\ StatusOf(c).Status = "completed"
                /\ StatusOf(c).Progress = 100
                /\ StatusOf(c).FinishedAt
                /\ StatusOf(c).Total = recalculations[c].total
                /\ StatusOf(c).Updated + StatusOf(c).Errors = StatusOf(c).Total)

(* C15: the progress a status request finds under a job id lies in 0..100,   *)
(* never decreases, and every write to the job record increases it.          *)
C15_ProgressStrictlyIncreasing ==
    [][\A id \in JobIDs :
         jobs[id] # 0 =>
            /\ statuses'[jobs'[id]].Progress \in 0..100
            /\ statuses'[jobs'[id]].Progress >= statuses[jobs[id]].Progress
            /\ statuses'[jobs'[id]] # statuses[jobs[id]] =>
                  statuses'[jobs'[id]].Progress > statuses[jobs[id]].Progress]_vars

(* C16: the body of a 200 answer of GetRecalculationStatusHandler is the     *)
(* value the job's struct held at one moment of the request.                 *)
C16_ConsistentSnapshot ==
    (reader.pc = "done" /\ reader.code = 200)
        => \E v \in reader.cands : agrees(v, reader.body)

C17_Inv ==
    /\ \A id \in JobIDs : id \in returned <=> jobs[id] # 0
    /\ \A c \in Started : recalculations[c].jobID \in returned
    /\ (reader.pc = "done" /\ reader.code = 200) => reader.jobID \in returned

C17_Step ==
    /\ \A id \in JobIDs : jobs[id] # 0 => jobs'[id] # 0
    /\ (reader.pc = "idle" /\ reader'.pc # "idle") =>
          /\ reader'.jobID \in returned => reader'.pc = "marshal"
          /\ reader'.jobID \notin returned =>
                (reader'.pc = "done" /\ reader'.code = 404)

(* C17: RecalculateAllCoverageHandler answers with the job id once the job   *)
(* is registered and its goroutine started, without waiting for it; a        *)
(* registered job is never removed, so a status request made after the       *)
(* answer finds the job, and a request for an id that was not returned is    *)
(* answered 404.                                                             *)
C17_ReturnedJobsAreFound ==
    /\ []C17_Inv
    /\ [][C17_Step]_vars

(* C17, witness: a status request found the job while its goroutine had not  *)
(* yet made its query.                                                       *)
C17_Witness ==
    /\ reader.pc = "done" /\ reader.code = 200
    /\ recalculations[1].pc = "query"

(* A1 and A2 lie in the same city *)
SameCity == activity_rows[1].city_id = activity_rows[2].city_id

(* C18: with A1 and A2 in the same city, a run of the delta notifier posts   *)
(* at most one comment per activity, every activity it posted for has        *)
(* commented_at set when the run ends, and a run started when every activity *)
(* has commented_at set posts nothing.                                       *)
C18_OneCommentPerActivity ==
    SameCity =>
        \A p \in NotifierRuns, a \in ActivityIDs :
            /\ commenters[p].posted[a] <= 1
            /\ commenters[p].clean => commenters[p].posted[a] = 0
            /\ (commenters[p].pc = "done" /\ commenters[p].posted[a] > 0)
                  => activity_rows[a].commented_at # NULL

(* the successful PostComment calls for an activity, over all paths *)
PostedTotal(a) ==
    LET sum[S \in SUBSET Paths] ==
            IF S = {} THEN 0
            ELSE LET p == CHOOSE x \in S : TRUE
                 IN commenters[p].posted[a] + sum[S \ {p}]
    IN sum[Paths]

(* C19: no activity receives more than one successful PostComment, whatever  *)
(* the interleaving of the comment-posting paths.                            *)
C19_AtMostOneComment ==
    \A a \in ActivityIDs : PostedTotal(a) <= 1

(* C20: an activity with commented_at set has comment_posted = true, and     *)
(* when a path has ended, every activity it posted a comment for has         *)
(* commented_at set.                                                         *)
C20_MarkersAgree ==
    \A a \in ActivityIDs :
        /\ activity_rows[a].commented_at # NULL => activity_rows[a].comment_posted
        /\ \A p \in Paths :
              (commenters[p].pc = "done" /\ commenters[p].posted[a] > 0)
                 => activity_rows[a].commented_at # NULL

(* C21: the delta notifier sets commented_at of an activity only in the step *)
(* after a successful PostComment for that activity; a failed PostComment    *)
(* changes no activity row and the run goes on with the next activity of its *)
(* result.                                                                   *)
C21_Inv ==
    \A a \in ActivityIDs :
        activity_rows[a].commented_at # NULL
            => \E p \in NotifierRuns : commenters[p].posted[a] > 0

C21_Step ==
    /\ \A a \in ActivityIDs :
          activity_rows'[a] # activity_rows[a]
             => \E p \in NotifierRuns :
                   /\ commenters[p].pc = "mark"
                   /\ Head(commenters[p].queue) = a
                   /\ commenters[p].posted[a] > 0
                   /\ commenters'[p].pc # "mark"
    /\ \A p \in NotifierRuns :
          (/\ commenters[p].pc = "post"
           /\ commenters'[p] # commenters[p]
           /\ commenters'[p].posted = commenters[p].posted)
             => /\ activity_rows' = activity_rows
                /\ commenters'[p].queue = Tail(commenters[p].queue)
                /\ commenters'[p].pc =
                      IF commenters'[p].queue = <<>> THEN "done" ELSE "post"

C21_MarkedOnlyAfterSuccess == C21_Inv /\ [][C21_Step]_vars

(* a run whose post for A1 failed went on, posted for A2 and marked it *)
C21_Witness ==
    /\ commenters["notifier1"].pc = "done"
    /\ commenters["notifier2"].pc = "idle"
    /\ commenters["notifier1"].posted[1] = 0
    /\ commenters["notifier1"].posted[2] > 0
    /\ activity_rows[1].commented_at = NULL
    /\ activity_rows[2].commented_at # NULL

(* the maximum coverage over the user's activities of the city of a that     *)
(* started strictly before a, 0 if there is none                             *)
PreviousMax(a) ==
    LET earlier == {x \in ActivityIDs :
                      /\ activity_rows[x].user_id = activity_rows[a].user_id
                      /\ activity_rows[x].city_id = activity_rows[a].city_id
                      /\ activity_rows[x].start_date < activity_rows[a].start_date
                      /\ activity_rows[x].coverage_percentage # NullCoverage}
    IN IF earlier = {} THEN 0
       ELSE Max({activity_rows[x].coverage_percentage : x \in earlier})

TrueDelta(a) == activity_rows[a].coverage_percentage - PreviousMax(a)

(* C22: the result of DetectCoverageIncreases has exactly one row for every  *)
(* uncommented activity with a coverage above the previous maximum of its    *)
(* city, and the increase of the row is the coverage minus that maximum.     *)
C22_DeltaAgainstPreviousMax ==
    \A u \in Users :
        LET result == DetectCoverageIncreases(activity_rows, u)
            rowsOf(a) == {k \in 1..Len(result) : result[k].ActivityID = a}
        IN \A a \in Uncommented(activity_rows, u) :
              TrueDelta(a) > 0
                 => /\ Cardinality(rowsOf(a)) = 1
                    /\ \A k \in rowsOf(a) : result[k].Increase = TrueDelta(a)

Disabled == ~comment_settings.present \/ ~comment_settings.Enabled

(* C24: with enabled = false, also for the user without settings row, the    *)
(* delta notifier posts no comment and changes no activity row.              *)
C24_Inv ==
    Disabled => \A p \in NotifierRuns, a \in ActivityIDs :
                    /\ commenters[p].posted[a] = 0
                    /\ commenters[p].queue = <<>>

C24_DisabledPostsNothing ==
    C24_Inv /\ [][Disabled => activity_rows' = activity_rows]_vars

(* a run for the user without settings row has ended; both activities were   *)
(* candidates                                                                *)
C24_Witness ==
    /\ ~comment_settings.present
    /\ commenters["notifier1"].pc = "done"
    /\ Uncommented(activity_rows, 1) = ActivityIDs

(* the user of the activity the last call was for *)
CalcUser == activity_paths[ParseInt(calc.param).value].user_id

(* C25: a successful CalculateCoverageHandler call returns the coverage that *)
(* counts the activity itself, the one the table gives once the activity has *)
(* its city, and the same call directly after it returns the same            *)
(* coverage_percentage.                                                      *)
C25_Inv ==
    calc.status = 200
       => calc.CoveragePercent =
             calculateGridBasedCoverage(activity_paths, cities, CalcUser,
                                        calc.CityID).CoveragePercent

C25_Step ==
    (calc.status = 200 /\ calc'.status = 200 /\ calc'.param = calc.param)
       => calc'.CoveragePercent = calc.CoveragePercent

C25_RepeatedCallSameCoverage == C25_Inv /\ [][C25_Step]_vars

(* the path lengths of the activities of a user attributed to a city *)
TotalKm(u, c) ==
    LET rows == {a \in DOMAIN activity_paths :
                    /\ activity_paths[a].user_id = u
                    /\ activity_paths[a].city_id = c
                    /\ activity_paths[a].path}
        sum[S \in SUBSET rows] ==
            IF S = {} THEN 0
            ELSE LET a == CHOOSE x \in S : TRUE
                 IN Abs(activity_paths[a].end - activity_paths[a].start)
                       + sum[S \ {a}]
    IN sum[rows]

ExplorableKm(area) ==
    IF area < 50 THEN area * 80
    ELSE IF 50 <= area /\ area < 200 THEN area * 60
    ELSE IF 200 <= area /\ area < 500 THEN area * 40
    ELSE area * 30

InRange(coverage) == coverage = NullCoverage \/ (0 <= coverage /\ coverage <= Percent100)

(* C27: every coverage_percentage of an activity and of a custom area is     *)
(* NULL or lies in 0..100.                                                   *)
C27_CoverageInRange ==
    /\ \A a \in DOMAIN activity_paths : InRange(activity_paths[a].coverage_percentage)
    /\ \A area \in 1..Len(custom_areas) : InRange(custom_areas[area].coverage_percentage)
    /\ InRange(calc.CoveragePercent)

(* the user has 160 km in a city with 80 km to explore: the cap was written; *)
(* the custom area has its coverage                                          *)
C27_Witness ==
    /\ cities[1].area_km2 = 1
    /\ activity_paths[1].city_id = 1
    /\ activity_paths[2].city_id = 1
    /\ activity_paths[2].coverage_percentage = Percent100
    /\ custom_areas[1].coverage_percentage # NullCoverage

(* the text is an optional sign and decimal digits *)
IsInteger(param) ==
    LET digits == IF param # <<>> /\ param[1] \in {"+", "-"} THEN Tail(param)
                  ELSE param
    IN /\ digits # <<>>
       /\ \A i \in 1..Len(digits) :
             digits[i] \in {"0", "1", "2", "3", "4", "5", "6", "7", "8", "9"}

(* C28: CalculateCoverageHandler answers Invalid for an id that is no        *)
(* integer, NotFound for an id without activity and NoIntersection for an    *)
(* activity that meets no city, and a call with one of these answers changes *)
(* no activity row.                                                          *)
C28_Inv ==
    calc.status # 0
       => IF ~IsInteger(calc.param)
          THEN calc.status = 400 /\ calc.error = "Invalid activity ID"
          ELSE IF ParseInt(calc.param).value \notin DOMAIN activity_paths
          THEN calc.status = 404 /\ calc.error = "Activity not found"
          ELSE IF \A c \in 1..Len(cities) :
                     ~ST_Intersects(activity_paths[ParseInt(calc.param).value],
                                    cities[c])
          THEN calc.status = 404 /\ calc.error = "No city intersection"
          ELSE calc.status = 200

C28_Step ==
    calc'.status \in {400, 404}
       => activity_paths' = activity_paths /\ cities' = cities

C29_SecondPassNoOp ==
    \A r \in Passes :
        resolvers[r].settled => <<cities, activity_paths>> = resolvers[r].before

(* C30: a city created by the discovery has no other city with its centroid  *)
(* within 20 km or with its name and country code.                           *)
C30_NoNearbyOrSameNameCity ==
    \A c, d \in 1..Len(cities) :
        (c # d /\ cities[c].discovered # 0)
           => /\ Abs(cities[c].centroid - cities[d].centroid) > 20
              /\ ~(/\ cities[c].name = cities[d].name
                   /\ cities[c].country_code = cities[d].country_code)

(* the city the attribution is to give: the largest intersection length, the *)
(* smallest id among equals; NullCity when the path meets no city            *)
LargestIntersection(row, cs) ==
    LET hit == {c \in 1..Len(cs) : ST_Intersects(row, cs[c])}
        longest == {c \in hit : \A d \in hit :
                       IntersectionLength(row, cs[c]) >= IntersectionLength(row, cs[d])}
    IN IF hit = {} THEN NullCity
       ELSE CHOOSE c \in longest : \A d \in longest : c <= d

(* C31: the mapping statement of a pass for user u gives every activity of u *)
(* with a path and without city the city of the largest intersection length, *)
(* the smallest id among equals, leaves those that meet no city without city *)
(* and changes no other activity.                                            *)
C31_Step ==
    \A r \in Passes :
        (resolvers[r].pc = "map" /\ resolvers'[r].pc = "done")
           => \A a \in DOMAIN activity_paths :
                 IF /\ activity_paths[a].user_id = resolvers[r].userID
                    /\ activity_paths[a].path
                    /\ activity_paths[a].city_id = NullCity
                 THEN activity_paths'[a] =
                         [activity_paths[a] EXCEPT !.city_id =
                             LargestIntersection(activity_paths[a], cities)]
                 ELSE activity_paths'[a] = activity_paths[a]

C31_AttributedToLargestIntersection == [][C31_Step]_vars

(* the pass has run both statements of createActivityGeometries, and the     *)
(* pass after it has not started                                             *)
GeometriesDone(r) ==
    /\ resolvers[r].pc \in {"clusters", "check", "create", "map", "done"}
    /\ \A o \in Passes : o > r => resolvers[o].pc = "idle"

C33_SummaryPolylineStored ==
    \A a \in DOMAIN activity_paths :
        activity_paths[a].summary = "polyline"
           => /\ activity_paths[a].polyline
              /\ activity_paths[a].path => activity_paths[a].geometry = "polyline"

(* C34: when a pass has ended, every activity of its user that had no city   *)
(* when the pass started and has a path is attributed to a city at least as  *)
(* long in it as every city that was there at the mapping, the cities the    *)
(* pass created included; also when the cluster query of the pass failed.    *)
(* The passes run in the order of their numbers.                             *)
C34_DiscoveryBeforeAttribution ==
    \A r \in Passes :
        resolvers[r].pc = "done" =>
           LET old == resolvers[r].before[2]
           IN \A a \in DOMAIN old, c \in 1..Len(cities) :
                 LET row == activity_paths[a]
                 IN (/\ old[a].user_id = resolvers[r].userID
                     /\ old[a].city_id = NullCity
                     /\ row.path
                     /\ cities[c].discovered <= r
                     /\ ST_Intersects(row, cities[c]))
                       => /\ row.city_id # NullCity
                          /\ IntersectionLength(row, cities[row.city_id])
                                >= IntersectionLength(row, cities[c])

(* the first pass, for user 1, lost its cluster query and attributed to the  *)
(* old city; the second, for user 2, created a city and attributed to it     *)
C34_Witness ==
    /\ resolvers[1].pc = "done" /\ resolvers[1].userID = 1
    /\ "clusters" \in resolvers[1].errors
    /\ activity_paths[2].city_id = 1
    /\ resolvers[2].pc = "done" /\ resolvers[2].userID = 2
    /\ Len(cities) = 2 /\ cities[2].discovered = 2
    /\ activity_paths[7].city_id = 2

(* the number of distinct vertices of a coordinate list *)
DistinctVertices(coords) == Cardinality({coords[i] : i \in 1..Len(coords)})

(* the call got past the path parameter and the binding of the body *)
Validated(response) ==
    /\ response.op # ""
    /\ response.error \notin {"Invalid user ID", "Invalid area ID", "bind"}

(* C35: a create or update request whose coordinate list has fewer than 3    *)
(* distinct vertices is answered 400 and leaves custom_areas unchanged.      *)
C35_Inv ==
    (Validated(area_response) /\ DistinctVertices(area_response.Coordinates) < 3)
       => area_response.status = 400

C35_Step ==
    (area_response'.op # "" /\ DistinctVertices(area_response'.Coordinates) < 3)
       => custom_areas' = custom_areas

C35_FewVerticesRejected == C35_Inv /\ [][C35_Step]_vars

(* the ring the claim describes for a coordinate list and its polygon text *)
ClosedRingOf(coords, wkt) ==
    /\ wkt[1] = wkt[Len(wkt)]
    /\ Len(wkt) = IF coords[1] = coords[Len(coords)] THEN Len(coords)
                  ELSE Len(coords) + 1
    /\ \A i \in 1..Len(coords) : wkt[i][1] = coords[i][2] /\ wkt[i][2] = coords[i][1]

(* C36: for a coordinate list that is not empty coordinatesToWKT gives the   *)
(* points of the list in their order, followed by the first when the list is *)
(* open and by nothing when it is closed, so first and last point are equal; *)
(* the polygon text of every call that converted its list is that ring.      *)
C36_RingClosed ==
    /\ \A coords \in CoordinateLists \ {<<>>} :
          ClosedRingOf(coords, coordinatesToWKT(coords))
    /\ (area_response.status \in {200, 201, 500} /\ area_response.Coordinates # <<>>)
          => ClosedRingOf(area_response.Coordinates, area_response.polygonWKT)

(* the open triangle was stored closed by an update, after an open list      *)
(* whose ends agree in the latitude was stored by a create                   *)
C36_Witness ==
    /\ area_response.op = "update"
    /\ area_response.status = 200
    /\ area_response.Coordinates = <<V1, V2, V3>>
    /\ custom_areas[1].geometry = <<<<0, 0>>, <<1, 0>>, <<1, 1>>, <<0, 0>>>>
    /\ Len(custom_areas) = 2
    /\ custom_areas[2].geometry = <<<<0, 0>>, <<1, 0>>, <<2, 0>>, <<0, 0>>>>

(* C37: a custom area whose coverage was calculated has coverage_percentage  *)
(* min(100, direct_covered_points / total_points x 100), cut to hundredths,  *)
(* and 0 when the grid has no points; the points of a layer are among those  *)
(* of the next wider layer and of the grid; the activities counted are those *)
(* of the owner of the area.                                                 *)
C37_CustomAreaCoverage ==
    \A area \in 1..Len(custom_areas) :
        LET q == coverageQuery(activity_paths, custom_areas, area)
            row == custom_areas[area]
            owned == {a \in DOMAIN activity_paths :
                         /\ activity_paths[a].user_id = row.user_id
                         /\ activity_paths[a].path
                         /\ Lo(activity_paths[a]) <= row.hi
                         /\ Hi(activity_paths[a]) >= row.lo}
        IN /\ q.direct_covered_points <= q.close_covered_points
           /\ q.close_covered_points <= q.moderate_covered_points
           /\ q.moderate_covered_points <= q.grid_points_total
           /\ row.calculated =>
                 /\ row.coverage_percentage =
                       IF q.grid_points_total = 0 THEN 0
                       ELSE IF q.direct_covered_points >= q.grid_points_total
                       THEN Percent100
                       ELSE (q.direct_covered_points * Percent100)
                               \div q.grid_points_total
                 /\ q.grid_points_total > 0 =>
                       row.activities_count = Cardinality(owned)

----------------------------------------------------------------------------
(* the goroutine is inside a run: setImportInProgress(userID, true) has      *)
(* returned and the deferred call has not                                    *)
InRun(g) == g.pc \in {"token", "fetch", "items", "streams", "finalize", "defer"}

(* the step is the updateImportStatus call of goroutine t *)
PagePersisted(t) ==
    /\ goroutines[t].pc = "items" /\ goroutines[t].activities = <<>>
    /\ goroutines'[t].pc # "items"

(* C38: after each processed page the row of the user holds the page, the    *)
(* imported and the failed count of the run, and while a run of a user goes  *)
(* on the stored current_page, imported_count and failed_count never         *)
(* decrease, whatever other requests for the user interleave                 *)
C38_Step ==
    \A t \in Tasks :
       LET g == goroutines[t]
           old == import_status[g.userID]
           new == import_status'[g.userID]
       IN /\ PagePersisted(t) =>
               /\ new.current_page = g.page
               /\ new.imported_count = g.totalImported
               /\ new.failed_count = g.totalFailed
          /\ InRun(g) /\ InRun(goroutines'[t]) =>
               /\ new.current_page >= old.current_page
               /\ new.imported_count >= old.imported_count
               /\ new.failed_count >= old.failed_count

C38_PersistedNeverDecrease == [][C38_Step]_vars

----------------------------------------------------------------------------
(* C39: a job record has finished_at set exactly when its status is          *)
(* completed, and no write changes the status, progress, total, updated or   *)
(* errors of a record that shows completed                                   *)
C39_Inv ==
    \A c \in Calls :
       statuses[c].allocated =>
          (statuses[c].FinishedAt <=> statuses[c].Status = "completed")

C39_Step ==
    \A c \in Calls :
       statuses[c].allocated /\ statuses[c].Status = "completed" =>
          /\ statuses'[c].Status = "completed"
          /\ statuses'[c].Progress = statuses[c].Progress
          /\ statuses'[c].Total = statuses[c].Total
          /\ statuses'[c].Updated = statuses[c].Updated
          /\ statuses'[c].Errors = statuses[c].Errors

C39_CompletedTerminal == C39_Inv /\ [][C39_Step]_vars

----------------------------------------------------------------------------
(* the page and the limit of the claim: 1 and 20 for a parameter that is     *)
(* absent or not positive, the limit at most 100                             *)
ClaimedPage(query) ==
    IF query.page = absent \/ query.page[1] <= 0 THEN 1 ELSE query.page[1]

ClaimedLimit(query) ==
    IF query.limit = absent \/ query.limit[1] <= 0 THEN 20
    ELSE IF query.limit[1] > 100 THEN 100 ELSE query.limit[1]

(* C40: GetPaginationParams returns page 1 and limit 20 when the parameters  *)
(* are absent or not positive, a limit of at most 100, and always            *)
(* offset = (page - 1) * limit                                               *)
C40_PaginationDefaults ==
    pagination.called =>
       /\ pagination.params.Page = ClaimedPage(pagination.query)
       /\ pagination.params.Limit = ClaimedLimit(pagination.query)
       /\ pagination.params.Offset =
             (pagination.params.Page - 1) * pagination.params.Limit

====
